---- MODULE Spec2Model ----
(***************************************************************************)
(* Connector scheduling and run execution: the sweep of                    *)
(* workers/scheduler.py (enqueue_due_jobs) and the executor of             *)
(* workers/tasks.py (run_connector), sharing a Postgres database (the      *)
(* schedules and runs tables), a Redis lock per connector and an RQ queue. *)
(*                                                                         *)
(* Time is counted in minutes.  A transaction's uncommitted rows are kept  *)
(* with the process that holds the session; the committed tables are what  *)
(* every other session reads (read committed).                             *)
(*                                                                         *)
(* The handlers of api/routes (schedules, logs, candidates) write the same *)
(* tables from sessions of their own; AdminSpec and CurationSpec interleave *)
(* them with the sweeps and the runs.                                      *)
(***************************************************************************)
EXTENDS Integers, Sequences, FiniteSets, TLC

VARIABLES
    clock,        \* wall clock, minutes (datetime.now(timezone.utc))
    wavesEnv,     \* CONNECTOR_PRIORITY_WAVES: groups (";") of fields (",")
    schedules,    \* committed schedules table: connector name -> row
    runs,         \* committed runs table: set of Run rows
    lock,         \* redis keys connector:<name>:lock -> [val, exp]
    queue,        \* the "connectors" RQ queue: sequence of connector names
    sw,           \* one record per scheduler process (an enqueue_due_jobs call)
    ex,           \* one record per worker process (a run_connector call)
    nSweeps,      \* sweeps started so far
    nRuns,        \* run_connector invocations started so far
    dispatched,   \* history: jobs enqueued for a name since its lock was last free
    failed,       \* history: names whose last returned run ended in 'error' and
                  \* that no sweep has enqueued since
    db,           \* committed source, candidate and embeddings tables, and the
                  \* item_count column of the runs table
    job,          \* the try block of the run in progress: its place in the
                  \* fetched batch and what its session has added
    delivered,    \* history: the batches connector.fetch has returned, in order
    calc          \* a call of a pure function: its arguments and what it returned

vars == <<clock, wavesEnv, schedules, runs, lock, queue, sw, ex, nSweeps, nRuns,
          dispatched, failed, db, job, delivered, calc>>

\* the tables and the session state of the ingestion pipeline
ingestVars == <<db, job>>

----------------------------------------------------------------------------
(* Bounds of the model *)

MaxTime == 2
MaxSweeps == 2
MaxRuns == 2
\* CONNECTOR_LOCK_TTL (default 1800 s) scaled to the model's time horizon
LockTtl == 2

(* Program values *)

NULL == -1
Registered == {"alpha", "beta", "gamma"}
\* "ghost": a name with a Schedule row and no registered connector
Names == Registered \cup {"ghost"}
Sweepers == {"s1", "s2"}
Workers == {"w1", "w2"}
EveryMinute == "* * * * *"
EveryOther == "*/2 * * * *"
Hourly == "0 * * * *"
BadCron == "every day"
\* no pure function is being called
NoCall == [fn |-> "none"]
default_cadence == [c \in Registered |-> IF c = "alpha" THEN EveryMinute ELSE EveryOther]

Range(s) == {s[i] : i \in DOMAIN s}

----------------------------------------------------------------------------
(* Cadence calculator *)

\* croniter(cron, base): the expressions it accepts
CronValid(cron) == cron \in {EveryMinute, EveryOther, Hourly}

\* the minute step of an accepted expression (the occurrences are the
\* multiples of the step: every minute, the even minutes, minute 0 of the hour)
CronStep(cron) == IF cron = EveryMinute THEN 1 ELSE IF cron = EveryOther THEN 2 ELSE 60

\* faulty variant: a base that is an occurrence is returned as it is
calculate_next_due_inclusive(cron, last_run, now) ==
    LET base == IF last_run # NULL THEN last_run ELSE now
    IN  ((base + CronStep(cron) - 1) \div CronStep(cron)) * CronStep(cron)

\* calculate_next_due(cron, last_run, now), for an accepted expression:
\* the first occurrence strictly after base = last_run or now
calculate_next_due(cron, last_run, now) ==
    LET base == IF last_run # NULL THEN last_run ELSE now
    IN  ((base \div CronStep(cron)) + 1) * CronStep(cron)

\* calculate_next_due on datetimes [t, aware] (t in minutes, aware: tzinfo is
\* set), last_run being <<>> for None: lines 26-33 with the tzinfo handling
calculate_next_due_datetime(cron, last_run, now) ==
    LET given == IF last_run # <<>> THEN last_run[1] ELSE now
        base == IF ~given.aware THEN [given EXCEPT !.aware = TRUE] ELSE given
        next_occurrence == [t |-> calculate_next_due(cron, base.t, base.t),
                            aware |-> base.aware]
    IN  IF ~next_occurrence.aware THEN [next_occurrence EXCEPT !.aware = TRUE]
        ELSE next_occurrence

----------------------------------------------------------------------------
(* Priority waves *)

\* [name.strip() for name in group.split(",") if name.strip()]
WaveNames(group) == SelectSeq(group, LAMBDA f : f # "")

RECURSIVE ParseGroups(_)
ParseGroups(groups) ==
    IF groups = <<>> THEN <<>>
    ELSE LET connectors == WaveNames(Head(groups))
         IN  IF connectors # <<>>
             THEN <<connectors>> \o ParseGroups(Tail(groups))
             ELSE ParseGroups(Tail(groups))

\* _parse_priority_waves()
parse_priority_waves(env) == IF env = <<>> THEN <<>> ELSE ParseGroups(env)

\* list(dict.fromkeys(names))
RECURSIVE DictFromKeys(_, _)
DictFromKeys(names, seen) ==
    IF names = <<>> THEN <<>>
    ELSE IF Head(names) \in seen THEN DictFromKeys(Tail(names), seen)
         ELSE <<Head(names)>> \o DictFromKeys(Tail(names), seen \cup {Head(names)})

\* faulty variant: a name taken is not removed from pending_set
RECURSIVE TakePendingKeep(_, _)
TakePendingKeep(names, st) ==
    IF names = <<>> THEN st
    ELSE IF Head(names) \in st.pending_set
         THEN TakePendingKeep(Tail(names),
                              [ordered |-> Append(st.ordered, Head(names)),
                               pending_set |-> st.pending_set])
         ELSE TakePendingKeep(Tail(names), st)

\* for name in ...: if name in pending_set: ordered.append(name); pending_set.remove(name)
RECURSIVE TakePending(_, _)
TakePending(names, st) ==
    IF names = <<>> THEN st
    ELSE IF Head(names) \in st.pending_set
         THEN TakePending(Tail(names),
                          [ordered |-> Append(st.ordered, Head(names)),
                           pending_set |-> st.pending_set \ {Head(names)}])
         ELSE TakePending(Tail(names), st)

RECURSIVE TakeWaves(_, _)
TakeWaves(waves, st) ==
    IF waves = <<>> THEN st
    ELSE TakeWaves(Tail(waves), TakePending(Head(waves), st))

\* faulty variant: the waves are ignored
order_due_unwaved(names, env) == DictFromKeys(names, {})

\* _order_due_connectors(names)
order_due_connectors(names, env) ==
    LET pending == DictFromKeys(names, {})
    IN  IF pending = <<>> THEN <<>>
        ELSE LET waved == TakeWaves(parse_priority_waves(env),
                                    [ordered |-> <<>>, pending_set |-> Range(pending)])
             IN  TakePending(pending, waved).ordered

----------------------------------------------------------------------------
(* Schedule rows *)

\* Schedule(connector=..., cadence_cron=default_cadence, enabled=True)
NewSchedule(c) ==
    [cadence_cron |-> default_cadence[c], last_run_at |-> NULL,
     next_due_at |-> NULL, enabled |-> TRUE]

\* _compute_due_at raises exactly when it reaches calculate_next_due with an
\* expression croniter rejects
compute_due_at_raises(schedule, connector_default) ==
    /\ schedule.next_due_at = NULL
    /\ schedule.last_run_at # NULL
    /\ ~CronValid(IF schedule.cadence_cron # "" THEN schedule.cadence_cron
                  ELSE connector_default)

\* faulty variant: a row that never ran waits for the next occurrence
compute_due_at_waiting(schedule, now, connector_default) ==
    IF schedule.next_due_at # NULL THEN schedule.next_due_at
    ELSE calculate_next_due(IF schedule.cadence_cron # "" THEN schedule.cadence_cron
                            ELSE connector_default,
                            schedule.last_run_at, now)

\* _compute_due_at(schedule, now, connector_default)
compute_due_at(schedule, now, connector_default) ==
    IF schedule.next_due_at # NULL THEN schedule.next_due_at
    ELSE IF schedule.last_run_at # NULL
         THEN calculate_next_due(IF schedule.cadence_cron # "" THEN schedule.cadence_cron
                                 ELSE connector_default,
                                 schedule.last_run_at, now)
         ELSE now

\* all orders in which a query without ORDER BY may return the rows of S
Orders(S) == {q \in [1..Cardinality(S) -> S] : Range(q) = S}

----------------------------------------------------------------------------
(* Scheduler sweep: enqueue_due_jobs *)

IdleSweep ==
    [pc |-> "idle", now |-> 0, ens |-> 1, new |-> {}, due |-> <<>>, order |-> <<>>,
     idx |-> 1, log |-> <<>>, free |-> {}]

\* rows another session has flushed (INSERT executed) but not yet committed
FlushedBy(t) == IF sw[t].pc \in {"flushed", "dispatch", "enqueue"} THEN sw[t].new ELSE {}

\* faulty variant: every name resolves to a connector
IsRegisteredAny(name) == TRUE

\* registry.get(schedule.connector) succeeds
IsRegistered(name) == name \in Registered

\* faulty variant: the sweep advances next_due_at of the rows it dispatched
SweepViewAdvancing(s) ==
    [n \in DOMAIN schedules \cup sw[s].new |->
        IF n \in DOMAIN schedules
        THEN IF \E i \in DOMAIN sw[s].log : sw[s].log[i].name = n /\ sw[s].log[i].got
             THEN [schedules[n] EXCEPT !.next_due_at = sw[s].now + 1]
             ELSE schedules[n]
        ELSE [cadence_cron |-> default_cadence[n], last_run_at |-> NULL,
              next_due_at |-> NULL, enabled |-> TRUE]]

\* the table as the sweep's session sees it after its own flush: the query of
\* lines 99-103 reads the committed rows anew (the objects session.get loaded
\* in _ensure_schedule_rows are released when it returns, the identity map
\* holds them weakly)
SweepView(s) ==
    [n \in DOMAIN schedules \cup sw[s].new |->
        IF n \in DOMAIN schedules THEN schedules[n] ELSE NewSchedule(n)]

\* faulty variant: the query does not filter on enabled
EnabledNamesUnfiltered(view) == DOMAIN view

\* session.query(Schedule).filter(Schedule.enabled.is_(True))
EnabledNames(view) == {n \in DOMAIN view : view[n].enabled}

\* the schedule passes "due_at <= current_time"
IsDue(view, n, now) ==
    /\ IsRegistered(n)
    /\ compute_due_at(view[n], now, default_cadence[n]) <= now

\* scheduler processes are interchangeable: a new sweep runs in the first one
\* that is not inside a sweep
Resting(s) == sw[s].pc \in {"idle", "done", "failed"}
FreeSweeper == IF Resting("s1") THEN "s1" ELSE IF Resting("s2") THEN "s2" ELSE "none"

\* registry.all(): the connectors in the order of their registration
RegistryAll == <<"alpha", "beta", "gamma">>

\* faulty variant: the loop stops after the first connector it adds
ensure_schedule_rows_first(new, c) ==
    IF c \notin DOMAIN schedules /\ new = {} THEN {c} ELSE new

\* lines 38-45 of _ensure_schedule_rows(session) for one connector:
\* session.get reads the committed table, and a row is added to the session
\* when none is found (new: the rows the session has added so far)
ensure_schedule_rows(new, c) ==
    IF c \notin DOMAIN schedules THEN new \cup {c} ELSE new

\* line 89: current_time = now or datetime.now(timezone.utc)
enqueue_due_jobs_begin(s) ==
    /\ s = FreeSweeper
    /\ nSweeps < MaxSweeps
    /\ nSweeps' = nSweeps + 1
    /\ sw' = [sw EXCEPT ![s] = [IdleSweep EXCEPT !.pc = "ensure", !.now = clock]]
    /\ UNCHANGED <<clock, wavesEnv, schedules, runs, lock, queue, ex, nRuns,
                   dispatched, failed, db, job, delivered, calc>>

\* line 96, one iteration of the loop of _ensure_schedule_rows (lines 37-45):
\* one SELECT by primary key, at the moment the loop reaches the connector
enqueue_due_jobs_ensure(s) ==
    /\ sw[s].pc = "ensure"
    /\ LET last == sw[s].ens = Len(RegistryAll)
       IN  sw' = [sw EXCEPT ![s].new = ensure_schedule_rows(@, RegistryAll[sw[s].ens]),
                            ![s].ens = IF last THEN 1 ELSE @ + 1,
                            ![s].pc = IF last THEN "begun" ELSE "ensure"]
    /\ UNCHANGED <<clock, wavesEnv, schedules, runs, lock, queue, ex, nSweeps, nRuns,
                   dispatched, failed, db, job, delivered, calc>>

\* line 97, session.flush(): a row committed meanwhile under the same primary
\* key raises IntegrityError out of enqueue_due_jobs (the session rolls back)
enqueue_due_jobs_flush_conflict(s) ==
    /\ sw[s].pc = "begun"
    /\ sw[s].new \cap (UNION {FlushedBy(t) : t \in Sweepers \ {s}}) = {}
    /\ sw[s].new \cap DOMAIN schedules # {}
    /\ sw' = [sw EXCEPT ![s] = [IdleSweep EXCEPT !.pc = "failed"]]
    /\ UNCHANGED <<clock, wavesEnv, schedules, runs, lock, queue, ex, nSweeps, nRuns,
                   dispatched, failed, db, job, delivered, calc>>

\* line 97, session.flush(): the added rows are inserted; the INSERT waits
\* while another session holds an uncommitted row under the same primary key
enqueue_due_jobs_flush(s) ==
    /\ sw[s].pc = "begun"
    /\ sw[s].new \cap (UNION {FlushedBy(t) : t \in Sweepers \ {s}}) = {}
    /\ sw[s].new \cap DOMAIN schedules = {}
    /\ sw' = [sw EXCEPT ![s].pc = "flushed"]
    /\ UNCHANGED <<clock, wavesEnv, schedules, runs, lock, queue, ex, nSweeps, nRuns,
                   dispatched, failed, db, job, delivered, calc>>

\* lines 99-116 when _compute_due_at raises for a registered, enabled schedule:
\* the exception leaves enqueue_due_jobs and the session rolls back
enqueue_due_jobs_due_raises(s) ==
    /\ sw[s].pc = "flushed"
    /\ \E n \in EnabledNames(SweepView(s)) :
          /\ IsRegistered(n)
          /\ compute_due_at_raises(SweepView(s)[n], default_cadence[n])
    /\ sw' = [sw EXCEPT ![s] = [IdleSweep EXCEPT !.pc = "failed"]]
    /\ UNCHANGED <<clock, wavesEnv, schedules, runs, lock, queue, ex, nSweeps, nRuns,
                   dispatched, failed, db, job, delivered, calc>>

\* lines 99-118: query the enabled schedules, build due_map, order it
enqueue_due_jobs_collect(s) ==
    /\ sw[s].pc = "flushed"
    /\ LET view == SweepView(s)
       IN  /\ \A n \in EnabledNames(view) :
                 IsRegistered(n) => ~compute_due_at_raises(view[n], default_cadence[n])
           /\ \E q \in Orders(EnabledNames(view)) :
                 LET due == SelectSeq(q, LAMBDA n : IsDue(view, n, sw[s].now))
                 IN  sw' = [sw EXCEPT ![s].pc = "dispatch", ![s].due = due,
                                      ![s].order = order_due_connectors(due, wavesEnv),
                                      ![s].idx = 1,
                                      ![s].free = Range(due) \ DOMAIN lock]
    /\ UNCHANGED <<clock, wavesEnv, schedules, runs, lock, queue, ex, nSweeps, nRuns,
                   dispatched, failed, db, job, delivered, calc>>

\* faulty variant: the key is set without ex=lock_ttl
LockAfterSetForever(key, value) ==
    [k \in DOMAIN lock \cup {key} |->
        IF k = key THEN [val |-> value, exp |-> clock + LockTtl + MaxTime + 1]
        ELSE lock[k]]

\* faulty variant: the key is set without nx=True
RedisSetAlways(key) == TRUE

\* redis.set(lock_key, value, nx=True, ex=lock_ttl): TRUE iff the key was set
RedisSetNx(key) == key \notin DOMAIN lock

\* the key-value store after a successful set
LockAfterSet(key, value) ==
    [k \in DOMAIN lock \cup {key} |->
        IF k = key THEN [val |-> value, exp |-> clock + LockTtl] ELSE lock[k]]

\* lines 118-123, one iteration of the dispatch loop up to the lock: the key is
\* set, or it is held and the loop continues with the next name
enqueue_due_jobs_lock(s) ==
    /\ sw[s].pc = "dispatch"
    /\ sw[s].idx <= Len(sw[s].order)
    /\ LET connector_name == sw[s].order[sw[s].idx]
           got == RedisSetNx(connector_name)
       IN  /\ sw' = [sw EXCEPT ![s].pc = IF got THEN "enqueue" ELSE "dispatch",
                               ![s].idx = IF got THEN @ ELSE @ + 1,
                               ![s].log = Append(@, [name |-> connector_name,
                                                     got |-> got])]
           /\ lock' = IF got THEN LockAfterSet(connector_name, sw[s].now) ELSE lock
    /\ UNCHANGED <<clock, wavesEnv, schedules, runs, queue, ex, nSweeps, nRuns,
                   dispatched, failed, db, job, delivered, calc>>

\* line 121 when redis.set raises (the connection to Redis is lost or times
\* out): the exception leaves enqueue_due_jobs without commit, the session
\* rolls back, the locks and jobs of the earlier names stay
enqueue_due_jobs_lock_raises(s) ==
    /\ sw[s].pc = "dispatch"
    /\ sw[s].idx <= Len(sw[s].order)
    /\ sw' = [sw EXCEPT ![s] = [IdleSweep EXCEPT !.pc = "failed"]]
    /\ UNCHANGED <<clock, wavesEnv, schedules, runs, lock, queue, ex, nSweeps, nRuns,
                   dispatched, failed, db, job, delivered, calc>>

\* lines 125-126, queue.enqueue for the name whose lock this sweep has set
enqueue_due_jobs_enqueue(s) ==
    /\ sw[s].pc = "enqueue"
    /\ LET connector_name == sw[s].order[sw[s].idx]
       IN  /\ queue' = Append(queue, connector_name)
           /\ dispatched' = [dispatched EXCEPT ![connector_name] = @ + 1]
           /\ failed' = failed \ {connector_name}
    /\ sw' = [sw EXCEPT ![s].pc = "dispatch", ![s].idx = @ + 1]
    /\ UNCHANGED <<clock, wavesEnv, schedules, runs, lock, ex, nSweeps, nRuns, db, job,
                   delivered, calc>>

\* line 126 when queue.enqueue raises after the lock was set: the exception
\* leaves enqueue_due_jobs and the session rolls back
enqueue_due_jobs_enqueue_raises(s) ==
    /\ sw[s].pc = "enqueue"
    /\ sw' = [sw EXCEPT ![s] = [IdleSweep EXCEPT !.pc = "failed"]]
    /\ UNCHANGED <<clock, wavesEnv, schedules, runs, lock, queue, ex, nSweeps, nRuns,
                   dispatched, failed, db, job, delivered, calc>>

\* line 128, session.commit(): the bootstrapped rows become visible
enqueue_due_jobs_commit(s) ==
    /\ sw[s].pc = "dispatch"
    /\ sw[s].idx > Len(sw[s].order)
    /\ schedules' = SweepView(s)
    /\ sw' = [sw EXCEPT ![s] = [IdleSweep EXCEPT !.pc = "done"]]
    /\ UNCHANGED <<clock, wavesEnv, runs, lock, queue, ex, nSweeps, nRuns,
                   dispatched, failed, db, job, delivered, calc>>

enqueue_due_jobs(s) ==
    \/ enqueue_due_jobs_begin(s)
    \/ enqueue_due_jobs_ensure(s)
    \/ enqueue_due_jobs_flush_conflict(s)
    \/ enqueue_due_jobs_flush(s)
    \/ enqueue_due_jobs_due_raises(s)
    \/ enqueue_due_jobs_collect(s)
    \/ enqueue_due_jobs_lock(s)
    \/ enqueue_due_jobs_lock_raises(s)
    \/ enqueue_due_jobs_enqueue(s)
    \/ enqueue_due_jobs_enqueue_raises(s)
    \/ enqueue_due_jobs_commit(s)

----------------------------------------------------------------------------
(* Run executor: run_connector *)

IdleExec ==
    [pc |-> "idle", id |-> 0, connector |-> "",
     finished_at |-> NULL, status |-> "", sched |-> <<>>, write |-> <<>>,
     raised |-> FALSE]

\* session.get(Schedule, connector_name) on a session that has not loaded the row
GetSchedule(c) == IF c \in DOMAIN schedules THEN <<schedules[c]>> ELSE <<>>

\* worker processes are interchangeable: a job goes to the first one that is
\* not inside run_connector (a killed worker process is started again)
Waiting(w) == ex[w].pc \in {"idle", "ended", "killed"}
FreeWorker == IF Waiting("w1") THEN "w1" ELSE IF Waiting("w2") THEN "w2" ELSE "none"

\* lines 139-151: registry.get, started_at, the Schedule read ("since"), the
\* Run row added in 'running' and flushed (not committed)
run_connector_start(w) ==
    /\ w = FreeWorker
    /\ queue # <<>>
    /\ nRuns < MaxRuns
    /\ nRuns' = nRuns + 1
    /\ queue' = Tail(queue)
    /\ LET connector_name == Head(queue)
       IN  ex' = [ex EXCEPT ![w] =
                    IF ~IsRegistered(connector_name)
                    THEN [IdleExec EXCEPT !.pc = "ended",
                                          !.connector = connector_name,
                                          !.raised = TRUE]
                    ELSE [IdleExec EXCEPT !.pc = "finally", !.id = nRuns + 1,
                                          !.connector = connector_name,
                                          !.status = "running",
                                          !.sched = GetSchedule(connector_name)]]
    /\ UNCHANGED <<clock, wavesEnv, schedules, runs, lock, sw, nSweeps,
                   dispatched, failed, db, job, delivered, calc>>

\* line 218: session.get returns the row the session loaded at the start (the
\* identity map), and queries the table only when it had found none
FinalSchedule(w) ==
    IF ex[w].sched # <<>> THEN ex[w].sched ELSE GetSchedule(ex[w].connector)

\* lines 220-224: the expression handed to calculate_next_due
FinalCron(w) ==
    IF FinalSchedule(w) # <<>> THEN FinalSchedule(w)[1].cadence_cron
    ELSE default_cadence[ex[w].connector]

\* the columns of a loaded Schedule whose assigned value differs from the
\* loaded one: the unit of work puts only these in the UPDATE of the flush.
\* finished_at is an instant of its own (datetime.now), never the loaded
\* last_run_at; next_due is an occurrence of the expression and may be the
\* loaded next_due_at
DirtyColumns(schedule, next_due) ==
    {"last_run_at"} \cup (IF next_due # schedule[1].next_due_at THEN {"next_due_at"}
                          ELSE {})

\* faulty variant: last_run_at keeps the value read at the start of the run
SuccessWriteStale(schedule, finished_at, next_due) ==
    IF schedule # <<>>
    THEN [kind |-> "update", last_run_at |-> schedule[1].last_run_at,
          next_due_at |-> next_due, dirty |-> DirtyColumns(schedule, next_due)]
    ELSE [kind |-> "insert", last_run_at |-> NULL, next_due_at |-> next_due,
          dirty |-> {"last_run_at", "next_due_at"}]

\* lines 225-236: the Schedule write of a successful run
SuccessWrite(schedule, finished_at, next_due) ==
    IF schedule # <<>>
    THEN [kind |-> "update", last_run_at |-> finished_at, next_due_at |-> next_due,
          dirty |-> DirtyColumns(schedule, next_due)]
    ELSE [kind |-> "insert", last_run_at |-> finished_at, next_due_at |-> next_due,
          dirty |-> {"last_run_at", "next_due_at"}]

\* faulty variant: a failed run advances last_run_at as well
ErrorWriteAdvancing(schedule) ==
    IF schedule = <<>>
    THEN <<[kind |-> "insert", last_run_at |-> clock, next_due_at |-> NULL,
            dirty |-> {"last_run_at", "next_due_at"}]>>
    ELSE <<[kind |-> "update", last_run_at |-> clock,
            next_due_at |-> schedule[1].next_due_at, dirty |-> {"last_run_at"}]>>

\* lines 237-246: the Schedule write of a failed run
ErrorWrite(schedule) ==
    IF schedule = <<>>
    THEN <<[kind |-> "insert", last_run_at |-> NULL, next_due_at |-> NULL,
            dirty |-> {"last_run_at", "next_due_at"}]>>
    ELSE <<>>

\* lines 155-218 when a flush inside the try block raises (line 171: a pending
\* Embedding under a primary key that is there, a content_hash another run
\* inserted): line 211 catches it and sets 'error', but the session's
\* transaction is rolled back, session.get of line 218 raises, nothing is
\* committed and line 250 is not reached
run_connector_flush_raises(w) ==
    /\ ex[w].pc = "finally"
    /\ ex' = [ex EXCEPT ![w] = [IdleExec EXCEPT !.pc = "ended", !.raised = TRUE,
                                                !.connector = ex[w].connector]]
    /\ UNCHANGED <<clock, wavesEnv, schedules, runs, lock, queue, sw, nSweeps, nRuns,
                   dispatched, failed, db, job, delivered, calc>>

\* lines 155-216: the try block (fetch, dedupe, persist, extract) ends in
\* 'success' or, an exception caught, in 'error'; the finally block takes the
\* finish time (line 216, run.finished_at = datetime.now(timezone.utc))
run_connector_try(w) ==
    /\ ex[w].pc = "finally"
    /\ \E outcome \in {"success", "error"} :
          ex' = [ex EXCEPT ![w].pc = "advance",
                           ![w].status = outcome,
                           ![w].finished_at = clock]
    /\ UNCHANGED <<clock, wavesEnv, schedules, runs, lock, queue, sw, nSweeps, nRuns,
                   dispatched, failed, db, job, delivered, calc>>

\* lines 218-224 when calculate_next_due raises for a successful run: the
\* exception leaves run_connector, the session rolls back (the Run row with
\* it), line 250 is not reached
run_connector_finally_raises(w) ==
    /\ ex[w].pc = "advance"
    /\ ex[w].status = "success"
    /\ ~CronValid(FinalCron(w))
    /\ ex' = [ex EXCEPT ![w] = [IdleExec EXCEPT !.pc = "ended", !.raised = TRUE,
                                                !.connector = ex[w].connector]]
    /\ UNCHANGED <<clock, wavesEnv, schedules, runs, lock, queue, sw, nSweeps, nRuns,
                   dispatched, failed, db, job, delivered, calc>>

\* lines 218-246, the rest of the finally block: the Schedule is read (a
\* SELECT when the session had found no row at line 146) and advanced from
\* the finish time taken at line 216, or the row of a failed run is added
run_connector_finally(w) ==
    /\ ex[w].pc = "advance"
    /\ ex[w].status = "success" => CronValid(FinalCron(w))
    /\ LET finished_at == ex[w].finished_at
           schedule == FinalSchedule(w)
           next_due == calculate_next_due(FinalCron(w), finished_at, finished_at)
       IN  ex' = [ex EXCEPT ![w].pc = "commit",
                            ![w].write =
                                IF ex[w].status = "success"
                                THEN <<SuccessWrite(schedule, finished_at, next_due)>>
                                ELSE ErrorWrite(schedule)]
    /\ UNCHANGED <<clock, wavesEnv, schedules, runs, lock, queue, sw, nSweeps, nRuns,
                   dispatched, failed, db, job, delivered, calc>>

\* the Schedule INSERT of line 248 waits while another session holds the key
\* uncommitted
InsertBlocked(w) ==
    /\ ex[w].write # <<>>
    /\ ex[w].write[1].kind = "insert"
    /\ \E t \in Sweepers : ex[w].connector \in FlushedBy(t)

\* the flush of line 248 raises: the Schedule INSERT hits a committed row
\* (IntegrityError), or the Schedule UPDATE finds no row under the key, deleted
\* since the session loaded it (StaleDataError)
CommitFails(w) ==
    /\ ex[w].write # <<>>
    /\ \/ ex[w].write[1].kind = "insert" /\ ex[w].connector \in DOMAIN schedules
       \/ ex[w].write[1].kind = "update" /\ ex[w].connector \notin DOMAIN schedules

\* the schedules table after the session's Schedule write: an UPDATE of the
\* columns that changed in the session, or the INSERT of the row
ScheduleAfterWrite(c, write) ==
    IF write = <<>> THEN schedules
    ELSE IF write[1].kind = "update"
         THEN [schedules EXCEPT
                  ![c].last_run_at = IF "last_run_at" \in write[1].dirty
                                     THEN write[1].last_run_at ELSE @,
                  ![c].next_due_at = IF "next_due_at" \in write[1].dirty
                                     THEN write[1].next_due_at ELSE @]
         ELSE [n \in DOMAIN schedules \cup {c} |->
                  IF n = c
                  THEN [cadence_cron |-> default_cadence[c],
                        last_run_at |-> write[1].last_run_at,
                        next_due_at |-> write[1].next_due_at,
                        enabled |-> TRUE]
                  ELSE schedules[n]]

\* faulty variant: the row is written over the first Run of the table
RunRowReused(w) ==
    [id |-> 1, connector |-> ex[w].connector,
     finished_at |-> ex[w].finished_at, status |-> ex[w].status]

\* the Run row as committed (started_at, item_count and error_log, which no
\* step reads, are left out)
RunRow(w) ==
    [id |-> ex[w].id, connector |-> ex[w].connector,
     finished_at |-> ex[w].finished_at, status |-> ex[w].status]

\* line 248 when the flush of the commit raises: the exception leaves
\* run_connector, nothing of the session is committed, line 250 is not reached
run_connector_commit_raises(w) ==
    /\ ex[w].pc = "commit"
    /\ ~InsertBlocked(w)
    /\ CommitFails(w)
    /\ ex' = [ex EXCEPT ![w] = [IdleExec EXCEPT !.pc = "ended", !.raised = TRUE,
                                                !.connector = ex[w].connector]]
    /\ UNCHANGED <<clock, wavesEnv, schedules, runs, lock, queue, sw, nSweeps, nRuns,
                   dispatched, failed, db, job, delivered, calc>>

\* line 248, session.commit(), for the Run row and the Schedule write
CommitRun(w) ==
    /\ ex[w].pc = "commit"
    /\ ~InsertBlocked(w)
    /\ ~CommitFails(w)
    /\ schedules' = ScheduleAfterWrite(ex[w].connector, ex[w].write)
    /\ runs' = runs \cup {RunRow(w)}
    /\ ex' = [ex EXCEPT ![w].pc = "release"]
    /\ UNCHANGED <<clock, wavesEnv, lock, queue, sw, nSweeps, nRuns, dispatched,
                   failed, delivered, calc>>

\* line 248, session.commit(): the Run row and the Schedule write
run_connector_commit(w) ==
    /\ CommitRun(w)
    /\ UNCHANGED <<db, job, delivered, calc>>

\* redis.delete(key)
RedisDelete(key) == [k \in DOMAIN lock \ {key} |-> lock[k]]

\* line 250: redis.delete(lock_key)
run_connector_release(w) ==
    /\ ex[w].pc = "release"
    /\ LET c == ex[w].connector
       IN  /\ lock' = RedisDelete(c)
           /\ dispatched' = [dispatched EXCEPT ![c] = 0]
           /\ failed' = IF ex[w].status = "error" THEN failed \cup {c}
                        ELSE failed \ {c}
    /\ ex' = [ex EXCEPT ![w] = [IdleExec EXCEPT !.pc = "ended",
                                                !.connector = ex[w].connector]]
    /\ UNCHANGED <<clock, wavesEnv, schedules, runs, queue, sw, nSweeps, nRuns, db,
                   job, delivered, calc>>

\* the worker process dies inside run_connector (killed, out of memory, host
\* lost): the session's connection is dropped, what it had not committed is
\* rolled back, and line 250 is not reached
run_connector_dies(w) ==
    /\ ex[w].pc \in {"finally", "advance", "commit", "release"}
    /\ ex' = [ex EXCEPT ![w] = [IdleExec EXCEPT !.pc = "killed",
                                                !.connector = ex[w].connector]]
    /\ UNCHANGED <<clock, wavesEnv, schedules, runs, lock, queue, sw, nSweeps, nRuns,
                   dispatched, failed, db, job, delivered, calc>>

run_connector(w) ==
    \/ run_connector_start(w)
    \/ run_connector_flush_raises(w)
    \/ run_connector_try(w)
    \/ run_connector_finally_raises(w)
    \/ run_connector_finally(w)
    \/ run_connector_commit_raises(w)
    \/ run_connector_commit(w)
    \/ run_connector_release(w)

----------------------------------------------------------------------------
(* Dedupe and scoring: nlp/dedupe.py, nlp/scoring.py, the helpers of tasks.py *)

\* a.strip().lower() of the strings of the model
Normal(a) ==
    CASE a = "Existing Talent" -> "existing talent"
      [] a = "New Talent" -> "new talent"
      [] a = "New Talents" -> "new talents"
      [] a = "Fresh Face" -> "fresh face"
      [] a = "Unique" -> "unique"
      [] a = "HTTPS://Unique.Example " -> "https://unique.example"
      [] OTHER -> a

\* dedupe.exact_match(a, b)
exact_match(a, b) == Normal(a) = Normal(b)

\* len(a)
TextLen(a) ==
    CASE a = "Existing Talent" -> 15
      [] a = "New Talent" -> 10
      [] a = "New Talents" -> 11
      [] a = "Fresh Face" -> 10
      [] a = "Unique" -> 6

\* the characters SequenceMatcher(None, a.lower(), b.lower()) matches
MatchingChars(a, b) ==
    CASE a = b -> TextLen(a)
      [] {a, b} = {"New Talent", "New Talents"} -> 10
      [] {a, b} \in {{"Existing Talent", "New Talent"}, {"Existing Talent", "New Talents"}} -> 8
      [] {a, b} = {"Existing Talent", "Fresh Face"} -> 5
      [] {a, b} = {"New Talent", "Fresh Face"} -> 4
      [] <<a, b>> = <<"New Talents", "Fresh Face">> -> 4
      [] <<a, b>> = <<"Fresh Face", "New Talents">> -> 2
      [] <<a, b>> = <<"Unique", "Existing Talent">> -> 2
      [] <<a, b>> = <<"Existing Talent", "Unique">> -> 1
      [] {a, b} \in {{"Unique", "New Talent"}, {"Unique", "New Talents"}} -> 2
      [] {a, b} = {"Unique", "Fresh Face"} -> 1

\* dedupe.fuzzy_match(a, b): ratio = 2 * matches / (len(a) + len(b)) >= 0.85
fuzzy_match(a, b) == 40 * MatchingChars(a, b) >= 17 * (TextLen(a) + TextLen(b))

\* _hash_embedding_key(value): int(sha1(value).hexdigest(), 16) % 2**31
hash_embedding_key(value) ==
    CASE value = "dup-source" -> 284302384
      [] value = "unique-source" -> 1542879711
      [] value = "dup-candidate" -> 701792115
      [] value = "new-candidate" -> 908896234

\* scoring.INSTITUTIONAL_ANCHORS, COMMUNITY_CHANNELS, SOCIAL_CHANNELS
INSTITUTIONAL_ANCHORS == {"caha_pdf", "guma", "artspace", "uog"}
COMMUNITY_CHANNELS == {"reddit", "events"}
SOCIAL_CHANNELS == {"instagram_stub", "tiktok_stub"}

\* faulty variant: the signals of the metadata are not read
score_breakdown_by_channel(candidate_channel, metadata) ==
    [institutional |-> IF candidate_channel \in INSTITUTIONAL_ANCHORS THEN 40 ELSE 0,
     community |-> IF candidate_channel \in COMMUNITY_CHANNELS THEN 30 ELSE 0,
     social |-> IF candidate_channel \in SOCIAL_CHANNELS THEN 20 ELSE 0,
     recency |-> 10]

\* scoring.score_candidate(candidate_channel, metadata): the breakdown
score_breakdown(candidate_channel, metadata) ==
    [institutional |-> IF candidate_channel \in INSTITUTIONAL_ANCHORS
                          \/ metadata.institutional_anchor THEN 40 ELSE 0,
     community |-> IF candidate_channel \in COMMUNITY_CHANNELS
                      \/ metadata.community_signal THEN 30 ELSE 0,
     social |-> IF candidate_channel \in SOCIAL_CHANNELS THEN 20 ELSE 0,
     recency |-> 10]

\* scoring.score_candidate(candidate_channel, metadata): the total
score_candidate(candidate_channel, metadata) ==
    LET breakdown == score_breakdown(candidate_channel, metadata)
    IN  breakdown.institutional + breakdown.community + breakdown.social
            + breakdown.recency

\* Payloads.  "" stands for None or a missing key; meta and metadata are
\* records of the keys the pipeline reads.
\* fetched_at is the connector's stamp, counted from the moment of the fetch
SourcePayload(url, content_hash, embedding_key, title) ==
    [channel |-> "alpha", url |-> url, content_hash |-> content_hash,
     fetched_at |-> 0,
     meta |-> [embedding_key |-> embedding_key, title |-> title]]

\* the payload stamped later than the moment of the fetch (now + timedelta)
StampedLater(payload, delta) == [payload EXCEPT !.fetched_at = delta]

CandidatePayload(name, embedding_key, community_signal) ==
    [name |-> name, channel |-> "alpha",
     metadata |-> [embedding_key |-> embedding_key, institutional_anchor |-> FALSE,
                   community_signal |-> community_signal]]

\* _payload_embedding_key(meta)
payload_embedding_key(meta) == meta.embedding_key

\* what the queries of the session see: the committed rows and those the
\* session has flushed (autoflush is off: rows only added are not seen)
VisibleSources == db.sources \cup job.flushedS
VisibleCandidates == db.candidates \cup job.flushedC
VisibleEmbeddings == db.embeddings \cup job.flushedE

\* .limit(25) of line 95 and .limit(50) of line 125
RecentSourceLimit == 25
RecentCandidateLimit == 50

\* Source.fetched_at of q is later than that of r: fetched_at is <<the fetch
\* (the run that made it, 0 for earlier runs), the stamp within the fetch>>
FetchedLater(q, r) ==
    \/ q.fetched_at[1] > r.fetched_at[1]
    \/ q.fetched_at[1] = r.fetched_at[1] /\ q.fetched_at[2] > r.fetched_at[2]

\* the rows no other row of the set is older than
OldestRows(rows) == {r \in rows : \A q \in rows : ~FetchedLater(r, q)}

\* the subsets of k elements of a set
RECURSIVE Choose(_, _)
Choose(set, k) ==
    IF k = 0 THEN {{}}
    ELSE IF Cardinality(set) < k THEN {}
    ELSE IF Cardinality(set) = k THEN {set}
    ELSE LET x == CHOOSE x \in set : TRUE
         IN  {c \cup {x} : c \in Choose(set \ {x}, k - 1)} \cup Choose(set \ {x}, k)

\* the sets of k rows that ORDER BY fetched_at DESC may put last: rows of equal
\* fetched_at come in any order
RECURSIVE LastRows(_, _)
LastRows(rows, k) ==
    LET oldest == OldestRows(rows)
    IN  IF Cardinality(oldest) >= k THEN Choose(oldest, k)
        ELSE {oldest \cup cut : cut \in LastRows(rows \ oldest, k - Cardinality(oldest))}

\* lines 91-97: the sources of the channel, .order_by(fetched_at.desc())
\* .limit(25): the results the query may return
RecentSources(channel) ==
    LET rows == {r \in VisibleSources : r.channel = channel}
    IN  IF Cardinality(rows) <= RecentSourceLimit THEN {rows}
        ELSE {rows \ cut : cut \in LastRows(rows, Cardinality(rows) - RecentSourceLimit)}

\* lines 121-127: the candidates of the channel, .order_by(created_at.desc())
\* .limit(50); created_at is the time of the INSERT
RecentCandidates(channel) ==
    LET rows == {r \in VisibleCandidates : r.channel = channel}
        Newer(q, r) == q.run > r.run \/ (q.run = r.run /\ q.n > r.n)
    IN  {r \in rows : Cardinality({q \in rows : Newer(q, r)}) < RecentCandidateLimit}

\* faulty variant: the membership test ignores the namespace
embedding_duplicate_any(seen, namespace, key) ==
    /\ key # ""
    /\ \E e \in seen : e.object_id = hash_embedding_key(key)

\* _embedding_duplicate(session, namespace, key), seen being the embeddings
\* rows the session's query returns
embedding_duplicate(seen, namespace, key) ==
    /\ key # ""
    /\ [object_type |-> namespace, object_id |-> hash_embedding_key(key)] \in seen

\* _mark_embedding_key(session, namespace, key): the Embedding objects it adds
\* to the session
mark_embedding_key(seen, namespace, key) ==
    IF key # "" /\ [object_type |-> namespace, object_id |-> hash_embedding_key(key)]
                      \notin seen
    THEN <<[object_type |-> namespace, object_id |-> hash_embedding_key(key)]>>
    ELSE <<>>

\* faulty variant: the content hash is not looked up
is_duplicate_source_unhashed(payload, recent_sources) ==
    \/ embedding_duplicate(VisibleEmbeddings, "dedupe:source",
                          payload_embedding_key(payload.meta))
    \/ \E existing \in recent_sources :
          /\ \/ payload.url # "" /\ existing.url # ""
                /\ exact_match(existing.url, payload.url)
             \/ payload.meta.title # "" /\ existing.meta.title # ""
                /\ fuzzy_match(existing.meta.title, payload.meta.title)

\* _is_duplicate_source(session, payload), recent_sources being what the
\* query of lines 91-97 returned
is_duplicate_source(payload, recent_sources) ==
    \/ /\ payload.content_hash # ""
       /\ \E existing \in VisibleSources : existing.content_hash = payload.content_hash
    \/ embedding_duplicate(VisibleEmbeddings, "dedupe:source",
                          payload_embedding_key(payload.meta))
    \/ \E existing \in recent_sources :
          /\ \/ payload.url # "" /\ existing.url # ""
                /\ exact_match(existing.url, payload.url)
             \/ payload.meta.title # "" /\ existing.meta.title # ""
                /\ fuzzy_match(existing.meta.title, payload.meta.title)

\* _is_duplicate_candidate(session, candidate)
is_duplicate_candidate(candidate) ==
    \/ embedding_duplicate(VisibleEmbeddings, "dedupe:candidate",
                          payload_embedding_key(candidate.metadata))
    \/ \E existing \in RecentCandidates(candidate.channel) :
          /\ \/ exact_match(existing.name, candidate.name)
             \/ fuzzy_match(existing.name, candidate.name)

----------------------------------------------------------------------------
(* The try block of run_connector, source by source *)

\* no Source, Candidate or Embedding row yet, the sequence of source.id unused
EmptyDb ==
    [sources |-> {}, candidates |-> {}, embeddings |-> {}, item_count |-> <<>>,
     source_seq |-> 0]

IdleJob ==
    [pc |-> "idle", feed |-> <<>>, i |-> 1, cands |-> <<>>, source_id |-> 0,
     flushedS |-> {}, flushedC |-> {}, pendingC |-> {}, flushedE |-> {},
     pendingE |-> <<>>, item_total |-> 0, status |-> "running"]

\* what connector.fetch and connector.extract return: per fetched source, the
\* candidates extract yields for it, or that extract raises
Item(src, cands, raises) == [src |-> src, cands |-> cands, raises |-> raises]

SDup == SourcePayload("https://duplicate.example", "dup", "dup-source", "")
SUnique == SourcePayload("https://unique.example", "", "unique-source", "Unique")
STwin == SourcePayload("https://twin.example", "", "unique-source", "")
SShout == SourcePayload("HTTPS://Unique.Example ", "", "", "")
SPlain == SourcePayload("https://plain.example", "h2", "", "")
SCopy == SourcePayload("https://copy.example", "h2", "", "")
COld == CandidatePayload("Existing Talent", "dup-candidate", FALSE)
CNew == CandidatePayload("New Talent", "new-candidate", TRUE)
CTwin == CandidatePayload("Fresh Face", "new-candidate", FALSE)
CSrc == CandidatePayload("Fresh Face", "unique-source", FALSE)
CNews == CandidatePayload("New Talents", "", FALSE)

\* a page of 25 sources, each with its own url and content hash, all stamped
\* with the moment of the fetch
BulkUrl ==
    <<"https://bulk.example/1", "https://bulk.example/2",
      "https://bulk.example/3", "https://bulk.example/4",
      "https://bulk.example/5", "https://bulk.example/6",
      "https://bulk.example/7", "https://bulk.example/8",
      "https://bulk.example/9", "https://bulk.example/10",
      "https://bulk.example/11", "https://bulk.example/12",
      "https://bulk.example/13", "https://bulk.example/14",
      "https://bulk.example/15", "https://bulk.example/16",
      "https://bulk.example/17", "https://bulk.example/18",
      "https://bulk.example/19", "https://bulk.example/20",
      "https://bulk.example/21", "https://bulk.example/22",
      "https://bulk.example/23", "https://bulk.example/24",
      "https://bulk.example/25">>
BulkHash ==
    <<"b1", "b2", "b3", "b4", "b5", "b6", "b7", "b8", "b9", "b10", "b11",
      "b12", "b13", "b14", "b15", "b16", "b17", "b18", "b19", "b20",
      "b21", "b22", "b23", "b24", "b25">>
SBulk(k) == SourcePayload(BulkUrl[k], BulkHash[k], "", "")
\* a source at the url of the persisted one, under another content hash
SEcho == SourcePayload("https://duplicate.example", "e", "", "")

Feeds ==
    { <<Item(SDup, <<COld, CNew>>, FALSE),
        Item(StampedLater(SUnique, 1), <<COld, CNew>>, FALSE)>>,
      <<Item(SUnique, <<CNew>>, FALSE), Item(SPlain, <<>>, TRUE)>>,
      <<Item(SUnique, <<>>, FALSE), Item(STwin, <<CSrc>>, FALSE)>>,
      <<Item(SPlain, <<CNew, CTwin>>, FALSE)>>,
      <<Item(SPlain, <<CNew, CTwin>>, FALSE), Item(SUnique, <<CNews>>, FALSE)>>,
      <<Item(SShout, <<CNews>>, FALSE)>>,
      <<Item(SPlain, <<>>, FALSE), Item(SCopy, <<CNews>>, FALSE)>>,
      <<Item(SEcho, <<>>, FALSE)>> \o [k \in 1..25 |-> Item(SBulk(k), <<>>, FALSE)] }

\* two of the Embedding objects the session is about to INSERT have the same
\* primary key (object_type, object_id): the flush raises IntegrityError
HasTwin(pending) ==
    \E a, b \in DOMAIN pending : a < b /\ pending[a] = pending[b]

\* line 156: connector.fetch(since) returns a batch, or raises (the except
\* clause sets 'error')
run_connector_fetch(w) ==
    /\ ex[w].pc = "finally"
    /\ job.pc = "idle"
    /\ \/ \E feed \in Feeds :
             /\ job' = [IdleJob EXCEPT !.pc = "source", !.feed = feed]
             /\ delivered' = Append(delivered, feed)
       \/ /\ job' = [IdleJob EXCEPT !.pc = "over", !.status = "error"]
          /\ UNCHANGED delivered
    /\ UNCHANGED <<clock, wavesEnv, schedules, runs, lock, queue, sw, ex, nSweeps, nRuns,
                   dispatched, failed, db, calc>>

\* Source(...) of lines 161-169 for the payload, under the next id of the
\* table's sequence
SourceRow(w, payload) ==
    [id |-> db.source_seq + 1, run |-> ex[w].id, channel |-> payload.channel,
     url |-> payload.url, content_hash |-> payload.content_hash, meta |-> payload.meta,
     fetched_at |-> <<ex[w].id, payload.fetched_at>>]

\* faulty variant: the duplicate check only keeps the Source row out; the
\* source's key is recorded all the same
skip_duplicate_source_marking(payload) ==
    [job EXCEPT !.i = @ + 1,
                !.pendingE = @ \o mark_embedding_key(
                                      db.embeddings \cup job.flushedE \cup Range(@),
                                      "dedupe:source",
                                      payload_embedding_key(payload.meta))]

\* lines 158-159, "if _is_duplicate_source(...): continue": the session after
\* the loop has moved on to the next fetched source
skip_duplicate_source(payload) == [job EXCEPT !.i = @ + 1]

\* lines 157-179, one iteration of the loop over the fetched sources, up to the
\* call of extract
run_connector_source(w) ==
    /\ ex[w].pc = "finally"
    /\ job.pc = "source"
    /\ job.i <= Len(job.feed)
    /\ LET item == job.feed[job.i]
           payload == item.src
           flushedE == job.flushedE \cup Range(job.pendingE)
       IN  \E recent_sources \in RecentSources(payload.channel) :
           IF is_duplicate_source(payload, recent_sources)
           THEN \* line 159: continue
                /\ job' = skip_duplicate_source(payload)
                /\ UNCHANGED <<ex, db>>
           ELSE IF HasTwin(job.pendingE)
           THEN \* line 171: the flush raises; the except clause sets 'error';
                \* the session, its transaction rolled back by the failed flush,
                \* raises on the first statement of the finally block that needs
                \* the database; nothing is committed, line 250 is not reached
                /\ job' = IdleJob
                /\ ex' = [ex EXCEPT ![w] = [IdleExec EXCEPT !.pc = "ended", !.raised = TRUE,
                                                            !.connector = ex[w].connector]]
                /\ UNCHANGED db
           ELSE \* lines 170-179: add, flush (everything pending goes with it),
                \* mark the source's key, call extract
                /\ db' = [db EXCEPT !.source_seq = @ + 1]
                /\ job' = [job EXCEPT
                      !.flushedS = @ \cup {SourceRow(w, payload)},
                      !.flushedC = @ \cup job.pendingC,
                      !.pendingC = {},
                      !.flushedE = flushedE,
                      !.pendingE = mark_embedding_key(db.embeddings \cup flushedE,
                                                      "dedupe:source",
                                                      payload_embedding_key(payload.meta)),
                      !.source_id = db.source_seq + 1,
                      !.cands = IF item.raises THEN <<>> ELSE item.cands,
                      !.status = IF item.raises THEN "error" ELSE "running",
                      !.pc = IF item.raises THEN "over"
                             ELSE IF item.cands = <<>> THEN "source" ELSE "candidate",
                      !.i = IF ~item.raises /\ item.cands = <<>> THEN @ + 1 ELSE @]
                /\ UNCHANGED ex
    /\ UNCHANGED <<clock, wavesEnv, schedules, runs, lock, queue, sw, nSweeps, nRuns,
                   dispatched, failed, delivered, calc>>

\* faulty variant: the row is linked to the first Source of the table
CandidateRowFirstSource(w, candidate, n) ==
    [n |-> n, run |-> ex[w].id, source_id |-> 1, name |-> candidate.name,
     channel |-> candidate.channel, metadata |-> candidate.metadata,
     score_breakdown |-> score_breakdown(candidate.channel, candidate.metadata),
     score |-> score_candidate(candidate.channel, candidate.metadata),
     status |-> "pending"]

\* CandidateModel(...) of lines 192-201 for the candidate, the n-th item the run
\* accepts
CandidateRow(w, candidate, n) ==
    [n |-> n, run |-> ex[w].id, source_id |-> job.source_id, name |-> candidate.name,
     channel |-> candidate.channel, metadata |-> candidate.metadata,
     score_breakdown |-> score_breakdown(candidate.channel, candidate.metadata),
     score |-> score_candidate(candidate.channel, candidate.metadata),
     status |-> "pending"]

\* lines 180-207, one iteration of the loop over the extracted candidates
run_connector_candidate(w) ==
    /\ ex[w].pc = "finally"
    /\ job.pc = "candidate"
    /\ LET candidate == Head(job.cands)
           last == Tail(job.cands) = <<>>
       IN  IF is_duplicate_candidate(candidate)
           THEN \* line 182: continue
                job' = [job EXCEPT !.cands = Tail(@),
                                   !.pc = IF last THEN "source" ELSE @,
                                   !.i = IF last THEN @ + 1 ELSE @]
           ELSE job' = [job EXCEPT
                      !.cands = Tail(@),
                      !.pc = IF last THEN "source" ELSE @,
                      !.i = IF last THEN @ + 1 ELSE @,
                      !.pendingC = @ \cup {CandidateRow(w, candidate, job.item_total + 1)},
                      !.pendingE = @ \o mark_embedding_key(VisibleEmbeddings,
                                         "dedupe:candidate",
                                         payload_embedding_key(candidate.metadata)),
                      !.item_total = @ + 1]
    /\ UNCHANGED <<clock, wavesEnv, schedules, runs, lock, queue, sw, ex, nSweeps, nRuns,
                   dispatched, failed, db, delivered, calc>>

\* lines 209-216: the loop is over (status 'success', item_count) or the except
\* clause has set 'error'; the finally block takes the finish time
run_connector_end(w) ==
    /\ ex[w].pc = "finally"
    /\ \/ job.pc = "over"
       \/ job.pc = "source" /\ job.i > Len(job.feed)
    /\ LET outcome == IF job.pc = "over" THEN job.status ELSE "success"
       IN  /\ ex' = [ex EXCEPT ![w].pc = "advance",
                                ![w].status = outcome,
                                ![w].finished_at = clock]
           /\ job' = [job EXCEPT !.pc = "commit", !.status = outcome]
    /\ UNCHANGED <<clock, wavesEnv, schedules, runs, lock, queue, sw, nSweeps, nRuns,
                   dispatched, failed, db, delivered, calc>>

\* faulty variant: the commit leaves out what the session had not flushed
CommittedFlushedOnly(w) ==
    [db EXCEPT !.sources = @ \cup job.flushedS,
               !.candidates = @ \cup job.flushedC,
               !.embeddings = @ \cup job.flushedE,
               !.item_count = [r \in DOMAIN @ \cup {ex[w].id} |->
                                  IF r = ex[w].id
                                  THEN IF job.status = "success" THEN job.item_total ELSE 0
                                  ELSE @[r]]]

\* the tables after the session's commit: whatever the session added, flushed
\* or not, and the Run's item_count (set on success, else the column default)
Committed(w) ==
    [db EXCEPT !.sources = @ \cup job.flushedS,
               !.candidates = @ \cup job.flushedC \cup job.pendingC,
               !.embeddings = @ \cup job.flushedE \cup Range(job.pendingE),
               !.item_count = [r \in DOMAIN @ \cup {ex[w].id} |->
                                  IF r = ex[w].id
                                  THEN IF job.status = "success" THEN job.item_total ELSE 0
                                  ELSE @[r]]]

\* line 248 when the flush of the commit raises (two Embedding objects under
\* one key): nothing is committed, line 250 is not reached
run_connector_rows_raise(w) ==
    /\ ex[w].pc = "commit"
    /\ job.pc = "commit"
    /\ HasTwin(job.pendingE)
    /\ job' = IdleJob
    /\ ex' = [ex EXCEPT ![w] = [IdleExec EXCEPT !.pc = "ended", !.raised = TRUE,
                                                !.connector = ex[w].connector]]
    /\ UNCHANGED <<clock, wavesEnv, schedules, runs, lock, queue, sw, nSweeps, nRuns,
                   dispatched, failed, db, delivered, calc>>

\* line 248, session.commit(): the Run row, the Schedule write and the rows of
\* the try block in one transaction
run_connector_rows_commit(w) ==
    /\ job.pc = "commit"
    /\ ~HasTwin(job.pendingE)
    /\ CommitRun(w)
    /\ db' = Committed(w)
    /\ job' = IdleJob

----------------------------------------------------------------------------
(* Schedules API: api/routes/schedules.py.  A handler reads, writes and      *)
(* commits within one request; a request answered 400, 404 or 409 writes    *)
(* nothing.                                                                 *)

\* the request bodies tried: no timestamp fields (payload.get gives None)
CreatePayloads == {[connector |-> "alpha", cadence_cron |-> EveryMinute]}
UpdatePayloads == {[enabled |-> FALSE], [enabled |-> TRUE], [cadence_cron |-> BadCron]}
ApiConnectors == {"alpha", "beta"}

\* payload.get(field, default)
PayloadGet(payload, field, default) ==
    IF field \in DOMAIN payload THEN payload[field] ELSE default

\* create_schedule(payload): 409 when the row exists; the INSERT waits while
\* another session holds the key uncommitted
create_schedule(payload) ==
    /\ payload.connector # "" /\ payload.cadence_cron # ""
    /\ payload.connector \notin DOMAIN schedules
    /\ \A t \in Sweepers : payload.connector \notin FlushedBy(t)
    /\ schedules' =
          [n \in DOMAIN schedules \cup {payload.connector} |->
              IF n = payload.connector
              THEN [cadence_cron |-> payload.cadence_cron,
                    last_run_at |-> PayloadGet(payload, "last_run_at", NULL),
                    next_due_at |-> PayloadGet(payload, "next_due_at", NULL),
                    enabled |-> PayloadGet(payload, "enabled", TRUE)]
              ELSE schedules[n]]
    /\ UNCHANGED <<clock, wavesEnv, runs, lock, queue, sw, ex, nSweeps, nRuns,
                   dispatched, failed, db, job, delivered, calc>>

\* update_schedule(connector, payload): 404 when there is no row; the fields
\* of the payload are set on the row
update_schedule(connector, payload) ==
    /\ connector \in DOMAIN schedules
    /\ schedules' =
          [schedules EXCEPT ![connector] =
              [field \in DOMAIN @ |-> PayloadGet(payload, field, @[field])]]
    /\ UNCHANGED <<clock, wavesEnv, runs, lock, queue, sw, ex, nSweeps, nRuns,
                   dispatched, failed, db, job, delivered, calc>>

\* delete_schedule(connector): 404 when there is no row
delete_schedule(connector) ==
    /\ connector \in DOMAIN schedules
    /\ schedules' = [n \in DOMAIN schedules \ {connector} |-> schedules[n]]
    /\ UNCHANGED <<clock, wavesEnv, runs, lock, queue, sw, ex, nSweeps, nRuns,
                   dispatched, failed, db, job, delivered, calc>>

----------------------------------------------------------------------------
(* Logs API (api/routes/logs.py) and candidates API                         *)
(* (api/routes/candidates.py), over the committed source and candidate      *)
(* tables.  A row written through the API belongs to no run (run 0).        *)

\* ids the source sequence hands out to rows created through the API
MaxLogId == 1
\* rows of no run in the candidates table
MaxCandidateN == 2

\* datetime.fromisoformat(value) for the strings tried, in minutes
IsoMinutes(value) == IF value = "1970-01-01T00:00:00+00:00" THEN 0 ELSE 1

\* the request bodies tried
LogPayloads == {[channel |-> "alpha", fetched_at |-> "1970-01-01T00:00:00+00:00"]}
LogUpdates == {[url |-> "https://plain.example"]}
ALLOWED_STATUSES == {"pending", "approved", "watch", "dismissed"}

\* payload.get("meta") or {}: the keys the core reads are absent
NoMeta == [embedding_key |-> "", title |-> ""]
NoMetadata == [embedding_key |-> "", institutional_anchor |-> FALSE,
               community_signal |-> FALSE]

\* the request bodies update_candidate is tried with
CandidateUpdates == {[name |-> "New Talents"], [metadata |-> NoMetadata]}

\* the INSERT or UPDATE of a content_hash that a committed row has raises
\* IntegrityError; on one a session holds uncommitted it waits
HashTaken(content_hash, but) ==
    /\ content_hash # ""
    /\ \E existing \in (db.sources \cup job.flushedS) \ but :
          existing.content_hash = content_hash

\* create_log(payload): 400 without channel or fetched_at
create_log(payload) ==
    /\ "channel" \in DOMAIN payload /\ payload.channel # ""
    /\ "fetched_at" \in DOMAIN payload /\ payload.fetched_at # ""
    /\ db.source_seq < MaxLogId
    /\ ~HashTaken(PayloadGet(payload, "content_hash", ""), {})
    /\ db' = [db EXCEPT
                !.source_seq = @ + 1,
                !.sources = @ \cup
                    {[id |-> db.source_seq + 1, run |-> 0, channel |-> payload.channel,
                      url |-> PayloadGet(payload, "url", ""),
                      content_hash |-> PayloadGet(payload, "content_hash", ""),
                      meta |-> PayloadGet(payload, "meta", NoMeta),
                      fetched_at |-> <<0, IsoMinutes(payload.fetched_at)>>]}]
    /\ UNCHANGED <<clock, wavesEnv, schedules, runs, lock, queue, sw, ex, nSweeps, nRuns,
                   dispatched, failed, job, delivered, calc>>

\* the Source row after setattr of the payload's fields
LogAfterUpdate(source, payload) ==
    [field \in DOMAIN source |->
        IF field \notin {"channel", "url", "fetched_at", "content_hash", "meta"}
        THEN source[field]
        ELSE IF field = "fetched_at" /\ "fetched_at" \in DOMAIN payload
        THEN <<0, IsoMinutes(payload.fetched_at)>>
        ELSE PayloadGet(payload, field, source[field])]

\* update_log(log_id, payload): 404 when there is no row
update_log(log_id, payload) ==
    \E source \in db.sources :
        /\ source.id = log_id
        /\ ~HashTaken(LogAfterUpdate(source, payload).content_hash, {source})
        /\ db' = [db EXCEPT !.sources = (@ \ {source})
                                          \cup {LogAfterUpdate(source, payload)}]
        /\ UNCHANGED <<clock, wavesEnv, schedules, runs, lock, queue, sw, ex, nSweeps,
                       nRuns, dispatched, failed, job, delivered, calc>>

\* delete_log(log_id): 404 when there is no row; the row's candidates go with
\* it (cascade="all, delete-orphan")
delete_log(log_id) ==
    \E source \in db.sources :
        /\ source.id = log_id
        /\ db' = [db EXCEPT !.sources = @ \ {source},
                            !.candidates = {c \in @ : c.source_id # log_id}]
        /\ UNCHANGED <<clock, wavesEnv, schedules, runs, lock, queue, sw, ex, nSweeps,
                       nRuns, dispatched, failed, job, delivered, calc>>

\* the key of a Candidate row (candidate.id)
CandidateId(candidate) == <<candidate.run, candidate.n>>
\* the ids the requests tried address: the first row of no run and the first
\* row of the first run
CandidateIds == {<<0, 1>>, <<1, 1>>}

\* the place a row created through the API takes among the rows of no run
NextCandidateN ==
    LET taken == {c.n : c \in {x \in db.candidates : x.run = 0}}
    IN  IF taken = {} THEN 1 ELSE 1 + CHOOSE n \in taken : \A m \in taken : m <= n

\* create_candidate(payload): 400 without source_id, name or channel or with a
\* status that is not allowed, 404 when the Source is not there
create_candidate(payload) ==
    /\ "source_id" \in DOMAIN payload
    /\ \E source \in db.sources : source.id = payload.source_id
    /\ "name" \in DOMAIN payload /\ "channel" \in DOMAIN payload
    /\ PayloadGet(payload, "status", "pending") \in ALLOWED_STATUSES
    /\ NextCandidateN <= MaxCandidateN
    /\ db' = [db EXCEPT
                !.candidates = @ \cup
                    {[n |-> NextCandidateN, run |-> 0, source_id |-> payload.source_id,
                      name |-> payload.name, channel |-> payload.channel,
                      metadata |-> PayloadGet(payload, "metadata", NoMetadata),
                      score_breakdown |-> <<>>,
                      score |-> PayloadGet(payload, "score", NULL),
                      status |-> PayloadGet(payload, "status", "pending")]}]
    /\ UNCHANGED <<clock, wavesEnv, schedules, runs, lock, queue, sw, ex, nSweeps, nRuns,
                   dispatched, failed, job, delivered, calc>>

\* the candidates table with the fields of one row set and committed; a
\* 'metadata' key replaces the whole metadata_json column, the score_breakdown
\* a run stored in it included
CandidatesAfterUpdate(candidate, payload) ==
    (db.candidates \ {candidate})
        \cup {[field \in DOMAIN candidate |->
                  IF field \in {"name", "channel", "metadata", "score", "status"}
                  THEN PayloadGet(payload, field, candidate[field])
                  ELSE IF field = "score_breakdown" /\ "metadata" \in DOMAIN payload
                       THEN <<>>
                       ELSE candidate[field]]}

\* update_candidate(candidate_id, payload): 404 when there is no row, 400 when
\* the status is not allowed
update_candidate(candidate_id, payload) ==
    \E candidate \in db.candidates :
        /\ CandidateId(candidate) = candidate_id
        /\ PayloadGet(payload, "status", candidate.status) \in ALLOWED_STATUSES
        /\ db' = [db EXCEPT !.candidates = CandidatesAfterUpdate(candidate, payload)]
        /\ UNCHANGED <<clock, wavesEnv, schedules, runs, lock, queue, sw, ex, nSweeps,
                       nRuns, dispatched, failed, job, delivered, calc>>

\* delete_candidate(candidate_id): 404 when there is no row
delete_candidate(candidate_id) ==
    \E candidate \in db.candidates :
        /\ CandidateId(candidate) = candidate_id
        /\ db' = [db EXCEPT !.candidates = @ \ {candidate}]
        /\ UNCHANGED <<clock, wavesEnv, schedules, runs, lock, queue, sw, ex, nSweeps,
                       nRuns, dispatched, failed, job, delivered, calc>>

\* _transition_candidate(candidate_id, status_value, db)
transition_candidate(candidate_id, status_value) ==
    \E candidate \in db.candidates :
        /\ CandidateId(candidate) = candidate_id
        /\ db' = [db EXCEPT !.candidates =
                      CandidatesAfterUpdate(candidate, [status |-> status_value])]
        /\ UNCHANGED <<clock, wavesEnv, schedules, runs, lock, queue, sw, ex, nSweeps,
                       nRuns, dispatched, failed, job, delivered, calc>>

approve_candidate(candidate_id) == transition_candidate(candidate_id, "approved")
watch_candidate(candidate_id) == transition_candidate(candidate_id, "watch")
dismiss_candidate(candidate_id) == transition_candidate(candidate_id, "dismissed")

----------------------------------------------------------------------------
(* Time: a minute passes; redis drops the keys whose TTL has elapsed *)

Expired(t) == {k \in DOMAIN lock : lock[k].exp <= t}

Tick ==
    /\ clock < MaxTime
    /\ clock' = clock + 1
    /\ lock' = [k \in DOMAIN lock \ Expired(clock + 1) |-> lock[k]]
    /\ dispatched' = [n \in Names |-> IF n \in Expired(clock + 1) THEN 0
                                      ELSE dispatched[n]]
    /\ UNCHANGED <<wavesEnv, schedules, runs, queue, sw, ex, nSweeps, nRuns, failed,
                   db, job, delivered, calc>>

----------------------------------------------------------------------------
(* Initial states *)

Row(cron, last, next, en) ==
    [cadence_cron |-> cron, last_run_at |-> last, next_due_at |-> next, enabled |-> en]

\* a table from at most one row per name (<<>>: no row)
Table(a, b, c, g) ==
    LET given == [n \in Names |-> IF n = "alpha" THEN a ELSE IF n = "beta" THEN b
                                  ELSE IF n = "gamma" THEN c ELSE g]
    IN  [n \in {x \in Names : given[x] # <<>>} |-> given[n][1]]

Fresh(cron) == <<Row(cron, NULL, NULL, TRUE)>>
Disabled(cron) == <<Row(cron, NULL, NULL, FALSE)>>

\* What a deployment may start from: rows never run, rows left by earlier runs,
\* rows written through the schedules API (any expression, any connector name,
\* disabled rows that never ran or that would be due), missing rows; with the priority waves of its environment.
Deployments ==
    { [table |-> Table(<<>>, <<>>, Disabled(EveryOther), <<>>),
       waves |-> <<>>],
      [table |-> Table(Fresh(EveryMinute), Disabled(EveryOther),
                       <<Row(EveryOther, 0, 0, FALSE)>>, <<>>),
       waves |-> <<<<"beta", "alpha">>>>],
      [table |-> Table(Disabled(EveryMinute), Fresh(EveryOther),
                       <<Row(EveryOther, 0, 0, FALSE)>>, <<>>),
       waves |-> <<<<"beta", "alpha">>>>],
      [table |-> Table(<<Row(EveryMinute, 0, NULL, TRUE)>>, <<Row(EveryOther, 0, 2, TRUE)>>,
                       <<Row(EveryOther, 0, NULL, FALSE)>>, <<>>),
       waves |-> <<<<"beta">>, <<"alpha">>>>],
      [table |-> Table(Fresh(BadCron), Disabled(EveryOther), Disabled(EveryOther), <<>>),
       waves |-> <<>>],
      [table |-> Table(<<Row(BadCron, 0, NULL, TRUE)>>, Fresh(EveryOther),
                       Disabled(EveryOther), <<>>),
       waves |-> <<>>],
      [table |-> Table(Disabled(EveryMinute), <<>>, Disabled(EveryOther),
                       Fresh(EveryMinute)),
       waves |-> <<<<"", "beta">>, <<"">>, <<"beta", "alpha">>>>] }

InitFrom(deployments) ==
    /\ clock = 0
    /\ \E d \in deployments : wavesEnv = d.waves /\ schedules = d.table
    /\ runs = {}
    /\ lock = <<>>
    /\ queue = <<>>
    /\ sw = [s \in Sweepers |-> IdleSweep]
    /\ ex = [w \in Workers |-> IdleExec]
    /\ nSweeps = 0
    /\ nRuns = 0
    /\ dispatched = [n \in Names |-> 0]
    /\ failed = {}
    /\ db = EmptyDb
    /\ job = IdleJob
    /\ delivered = <<>>
    /\ calc = NoCall

Init == InitFrom(Deployments)

Next ==
    \/ \E s \in Sweepers : enqueue_due_jobs(s)
    \/ \E w \in Workers : run_connector(w)
    \/ Tick

Spec == Init /\ [][Next]_vars

\* The sweeps alone (no worker takes a job), over more tables and waves: all
\* three connectors due at once (bootstrapped from an empty table, or found
\* by two sweeps at a time), names listed twice, blank fields and groups,
\* names of no registered connector.
SweepDeployments ==
    { [table |-> t, waves |-> w] :
        t \in { Table(<<>>, <<>>, <<>>, <<>>),
                Table(Fresh(EveryMinute), <<Row(EveryOther, 0, 1, TRUE)>>,
                      <<Row(EveryOther, 0, NULL, TRUE)>>, Fresh(EveryMinute)),
                Table(<<Row(BadCron, 0, NULL, TRUE)>>, Fresh(EveryOther),
                      Disabled(EveryOther), <<>>) },
        w \in { <<>>,
                <<<<"beta", "alpha">>>>,
                <<<<"gamma">>, <<"alpha", "gamma">>>>,
                <<<<"", "beta">>, <<"">>, <<"gamma", "beta", "gamma">>>>,
                <<<<"ghost", "gamma">>, <<"beta">>, <<"alpha">>>> } }
    \cup { [table |-> Table(Fresh(EveryMinute), Fresh(EveryOther), Fresh(EveryOther), <<>>),
             waves |-> <<<<"gamma">>, <<"alpha", "gamma">>>>] }

NextSweeps ==
    \/ \E s \in Sweepers : enqueue_due_jobs(s)
    \/ Tick

SweepSpec == InitFrom(SweepDeployments) /\ [][NextSweeps]_vars

\* The same processes with workers that may die inside run_connector.
CrashDeployments ==
    { [table |-> Table(Disabled(EveryMinute), <<>>, Disabled(EveryOther), <<>>),
       waves |-> <<>>],
      [table |-> Table(Fresh(BadCron), Disabled(EveryOther), Disabled(EveryOther), <<>>),
       waves |-> <<<<"beta", "alpha">>>>],
      [table |-> Table(<<Row(BadCron, 0, NULL, TRUE)>>, Disabled(EveryOther),
                       Disabled(EveryOther), <<>>),
       waves |-> <<>>] }

NextCrash ==
    \/ \E s \in Sweepers : enqueue_due_jobs(s)
    \/ \E w \in Workers : run_connector(w)
    \/ \E w \in Workers : run_connector_dies(w)
    \/ Tick

CrashSpec == InitFrom(CrashDeployments) /\ [][NextCrash]_vars

\* The same with time that passes: the clock of redis goes on whatever the
\* processes do.
CrashLiveSpec == CrashSpec /\ WF_vars(Tick)

\* Sweeps one after the other with the same 'now': a sweep begins when no
\* other is under way, no minute passes (no TTL elapses), and the workers
\* take jobs up without completing them (no lock is released).
NextSequence ==
    \/ \E s \in Sweepers : (\A t \in Sweepers : Resting(t)) /\ enqueue_due_jobs_begin(s)
    \/ \E s \in Sweepers : enqueue_due_jobs_ensure(s)
    \/ \E s \in Sweepers : enqueue_due_jobs_flush(s)
    \/ \E s \in Sweepers : enqueue_due_jobs_due_raises(s)
    \/ \E s \in Sweepers : enqueue_due_jobs_collect(s)
    \/ \E s \in Sweepers : enqueue_due_jobs_lock(s)
    \/ \E s \in Sweepers : enqueue_due_jobs_lock_raises(s)
    \/ \E s \in Sweepers : enqueue_due_jobs_enqueue(s)
    \/ \E s \in Sweepers : enqueue_due_jobs_enqueue_raises(s)
    \/ \E s \in Sweepers : enqueue_due_jobs_commit(s)
    \/ \E w \in Workers : run_connector_start(w)
    \/ \E w \in Workers : run_connector_try(w)

SequenceSpec == Init /\ [][NextSequence]_vars

\* The sweeps and the runs with an administrator editing the schedules
\* through the API meanwhile.
AdminDeployments ==
    { [table |-> Table(<<Row(EveryMinute, 0, NULL, TRUE)>>, Disabled(EveryOther),
                       Disabled(EveryOther), <<>>),
       waves |-> <<>>] }

NextAdmin ==
    \/ \E s \in Sweepers : enqueue_due_jobs(s)
    \/ \E w \in Workers : run_connector(w)
    \/ \E payload \in CreatePayloads : create_schedule(payload)
    \/ \E c \in ApiConnectors, payload \in UpdatePayloads : update_schedule(c, payload)
    \/ \E c \in ApiConnectors : delete_schedule(c)
    \/ Tick

\* one sweep and one run are left to start (the counters start from here)
InitAdmin ==
    /\ clock = 0
    /\ \E d \in AdminDeployments : wavesEnv = d.waves /\ schedules = d.table
    /\ runs = {}
    /\ lock = <<>>
    /\ queue = <<>>
    /\ sw = [s \in Sweepers |-> IdleSweep]
    /\ ex = [w \in Workers |-> IdleExec]
    /\ nSweeps = MaxSweeps - 1
    /\ nRuns = MaxRuns - 1
    /\ dispatched = [n \in Names |-> 0]
    /\ failed = {}
    /\ db = EmptyDb
    /\ job = IdleJob
    /\ delivered = <<>>
    /\ calc = NoCall

AdminSpec == InitAdmin /\ [][NextAdmin]_vars

\* The state a sweep at minute 0 leaves behind when it found alpha due: the
\* lock taken, the job waiting in the queue, the sweep committed.  (The
\* counters start from here.)
InitAfterDispatch ==
    /\ clock = 0
    /\ wavesEnv = <<>>
    /\ schedules = Table(Fresh(EveryMinute), Disabled(EveryOther), Disabled(EveryOther), <<>>)
    /\ runs = {}
    /\ lock = [k \in {"alpha"} |-> [val |-> 0, exp |-> LockTtl]]
    /\ queue = <<"alpha">>
    /\ sw = [s \in Sweepers |-> IdleSweep]
    /\ ex = [w \in Workers |-> IdleExec]
    /\ nSweeps = 0
    /\ nRuns = 0
    /\ dispatched = [n \in Names |-> IF n = "alpha" THEN 1 ELSE 0]
    /\ failed = {}
    /\ db = EmptyDb
    /\ job = IdleJob
    /\ delivered = <<>>
    /\ calc = NoCall

\* What earlier runs may have left: nothing, or a persisted source with content
\* hash "dup" and the candidate extracted from it, no key recorded.
Histories ==
    { EmptyDb,
      [sources |-> {[id |-> 1, run |-> 0, channel |-> "alpha",
                     url |-> "https://duplicate.example", content_hash |-> "dup",
                     fetched_at |-> <<0, 0>>,
                     meta |-> [embedding_key |-> "dup-source", title |-> ""]]},
       candidates |-> {[n |-> 1, run |-> 0, source_id |-> 1, name |-> "Existing Talent",
                        channel |-> "alpha",
                        metadata |-> [embedding_key |-> "dup-candidate",
                                      institutional_anchor |-> FALSE,
                                      community_signal |-> FALSE],
                        score_breakdown |-> [institutional |-> 0, community |-> 0,
                                             social |-> 0, recency |-> 10],
                        score |-> 10, status |-> "pending"]},
       embeddings |-> {}, item_count |-> <<>>, source_seq |-> 1] }

\* One worker and two jobs for alpha waiting in the queue (a connector that ran
\* a minute ago, dispatched twice or delivered twice).
InitIngest ==
    /\ clock = 0
    /\ wavesEnv = <<>>
    /\ schedules = Table(<<Row(EveryMinute, 0, NULL, TRUE)>>, Disabled(EveryOther),
                         Disabled(EveryOther), <<>>)
    /\ runs = {}
    /\ lock = [k \in {"alpha"} |-> [val |-> 0, exp |-> LockTtl]]
    /\ queue = <<"alpha", "alpha">>
    /\ sw = [s \in Sweepers |-> IdleSweep]
    /\ ex = [w \in Workers |-> IdleExec]
    /\ nSweeps = 0
    /\ nRuns = 0
    /\ dispatched = [n \in Names |-> IF n = "alpha" THEN 1 ELSE 0]
    /\ failed = {}
    /\ db \in Histories
    /\ job = IdleJob
    /\ delivered = <<>>
    /\ calc = NoCall

\* run_connector with its try block taken source by source and candidate by
\* candidate, in the one worker
NextIngest ==
    \/ run_connector_start("w1")
    \/ run_connector_fetch("w1")
    \/ run_connector_source("w1")
    \/ run_connector_candidate("w1")
    \/ run_connector_end("w1")
    \/ run_connector_finally("w1")
    \/ run_connector_rows_raise("w1")
    \/ run_connector_rows_commit("w1")
    \/ run_connector_release("w1")
    \/ Tick

IngestSpec == InitIngest /\ [][NextIngest]_vars

\* The same run with an administrator editing the source and candidate
\* tables through the API meanwhile.
NextCuration ==
    \/ NextIngest
    \/ \E payload \in LogPayloads : create_log(payload)
    \/ \E log_id \in 1..MaxLogId, payload \in LogUpdates : update_log(log_id, payload)
    \/ \E log_id \in 1..MaxLogId : delete_log(log_id)
    \/ \E log_id \in 1..MaxLogId :
          create_candidate([source_id |-> log_id, name |-> "New Talent",
                            channel |-> "alpha"])
    \/ \E candidate_id \in CandidateIds, payload \in CandidateUpdates :
          update_candidate(candidate_id, payload)
    \/ \E candidate_id \in CandidateIds : delete_candidate(candidate_id)
    \/ \E candidate_id \in CandidateIds : approve_candidate(candidate_id)
    \/ \E candidate_id \in CandidateIds : watch_candidate(candidate_id)
    \/ \E candidate_id \in CandidateIds : dismiss_candidate(candidate_id)

\* one job for alpha waiting in the queue
InitCuration ==
    /\ clock = 0
    /\ wavesEnv = <<>>
    /\ schedules = Table(<<Row(EveryMinute, 0, NULL, TRUE)>>, Disabled(EveryOther),
                         Disabled(EveryOther), <<>>)
    /\ runs = {}
    /\ lock = [k \in {"alpha"} |-> [val |-> 0, exp |-> LockTtl]]
    /\ queue = <<"alpha">>
    /\ sw = [s \in Sweepers |-> IdleSweep]
    /\ ex = [w \in Workers |-> IdleExec]
    /\ nSweeps = 0
    /\ nRuns = 0
    /\ dispatched = [n \in Names |-> IF n = "alpha" THEN 1 ELSE 0]
    /\ failed = {}
    /\ db \in Histories
    /\ job = IdleJob
    /\ delivered = <<>>
    /\ calc = NoCall

CurationSpec == InitCuration /\ [][NextCuration]_vars

\* Two jobs for alpha wait in the queue while a worker is already inside
\* run_connector for alpha (run 0, started at minute 0 from the row below): the
\* state after the lock's TTL has let sweeps dispatch alpha again.  alpha has
\* no row, a row that never ran, or a row with a rejected expression.
InitOverlap ==
    /\ clock = 0
    /\ wavesEnv = <<>>
    /\ \E a \in {<<>>, Fresh(EveryMinute), Fresh(BadCron)} :
          /\ schedules = Table(a, Disabled(EveryOther), Disabled(EveryOther), <<>>)
          /\ ex = [w \in Workers |->
                     IF w = "w2"
                     THEN [IdleExec EXCEPT !.pc = "finally", !.connector = "alpha",
                                           !.status = "running", !.sched = a]
                     ELSE IdleExec]
    /\ runs = {}
    /\ lock = [k \in {"alpha"} |-> [val |-> 0, exp |-> LockTtl]]
    /\ queue = <<"alpha", "alpha">>
    /\ sw = [s \in Sweepers |-> IdleSweep]
    /\ nSweeps = 0
    /\ nRuns = 0
    /\ dispatched = [n \in Names |-> IF n = "alpha" THEN 3 ELSE 0]
    /\ failed = {}
    /\ db = EmptyDb
    /\ job = IdleJob
    /\ delivered = <<>>
    /\ calc = NoCall

NextOverlap ==
    \/ \E w \in Workers : run_connector(w)
    \/ Tick

OverlapSpec == InitOverlap /\ [][NextOverlap]_vars

\* The processes at rest, for the specifications of the pure functions
AtRest ==
    /\ clock = 0
    /\ wavesEnv = <<>>
    /\ schedules = <<>>
    /\ runs = {}
    /\ lock = <<>>
    /\ queue = <<>>
    /\ sw = [s \in Sweepers |-> IdleSweep]
    /\ ex = [w \in Workers |-> IdleExec]
    /\ nSweeps = 0
    /\ nRuns = 0
    /\ dispatched = [n \in Names |-> 0]
    /\ failed = {}
    /\ db = EmptyDb
    /\ job = IdleJob
    /\ delivered = <<>>

\* calculate_next_due called on an accepted expression, a last_run that is
\* None or a datetime, and a now; datetimes naive or aware, on and off the
\* occurrences of the expressions
SampleMinutes == {0, 1, 2, 3, 30, 59, 60, 61, 119, 120}
SampleDatetimes == [t : SampleMinutes, aware : BOOLEAN]

InitDue ==
    /\ AtRest
    /\ \E cron \in {EveryMinute, EveryOther, Hourly},
          last_run \in {<<>>} \cup {<<d>> : d \in SampleDatetimes},
          now \in SampleDatetimes :
          calc = [fn |-> "calculate_next_due", cron |-> cron, last_run |-> last_run,
                  now |-> now, result |-> <<>>]

call_calculate_next_due ==
    /\ calc.fn = "calculate_next_due"
    /\ calc' = [calc EXCEPT !.result =
                   <<calculate_next_due_datetime(calc.cron, calc.last_run, calc.now)>>]
    /\ UNCHANGED <<clock, wavesEnv, schedules, runs, lock, queue, sw, ex, nSweeps, nRuns,
                   dispatched, failed, db, job, delivered>>

DueSpec == InitDue /\ [][call_calculate_next_due]_vars

\* score_candidate called on a channel of each of the three sets or of none,
\* with metadata that sets or does not set the two signals
SampleChannels ==
    INSTITUTIONAL_ANCHORS \cup COMMUNITY_CHANNELS \cup SOCIAL_CHANNELS
        \cup {"alpha", "beta", "gamma", "ghost", "stub"}

InitScore ==
    /\ AtRest
    /\ \E channel \in SampleChannels, anchor \in BOOLEAN, signal \in BOOLEAN :
          calc = [fn |-> "score_candidate", candidate_channel |-> channel,
                  metadata |-> [embedding_key |-> "", institutional_anchor |-> anchor,
                                community_signal |-> signal],
                  result |-> <<>>]

call_score_candidate ==
    /\ calc.fn = "score_candidate"
    /\ calc' = [calc EXCEPT !.result =
                   <<[total |-> score_candidate(calc.candidate_channel, calc.metadata),
                      breakdown |-> score_breakdown(calc.candidate_channel,
                                                    calc.metadata)]>>]
    /\ UNCHANGED <<clock, wavesEnv, schedules, runs, lock, queue, sw, ex, nSweeps, nRuns,
                   dispatched, failed, db, job, delivered>>

ScoreSpec == InitScore /\ [][call_score_candidate]_vars

\* Sweeps and workers that start with a job already waiting.
PendingSpec == (InitAfterDispatch \/ InitFrom(CrashDeployments)) /\ [][Next]_vars

----------------------------------------------------------------------------
(* Claims *)

\* a run_connector invocation is in flight in worker w
InFlight(w) == ex[w].pc \in {"finally", "advance", "commit", "release"}

\* C1: with any number of sweeps and workers sharing the lock and the queue
\* (lock TTL expiry included), at every moment at most one run_connector
\* execution is in flight for a given connector name.
C1_OneExecutionPerConnector ==
    \A w1, w2 \in Workers :
        (w1 # w2 /\ InFlight(w1) /\ InFlight(w2))
            => ex[w1].connector # ex[w2].connector

\* C2: two sweeps in sequence with the same 'now' and no lock release or TTL
\* expiry in between enqueue each due connector at most once in total, and
\* the second sweep enqueues nothing for a connector the first sweep locked:
\* it takes a lock, the step before its enqueue, only for a name no sweep has
\* locked or enqueued.
C2_OneDispatchWhileLocked ==
    [][/\ \A n \in Names : dispatched'[n] <= 1
       /\ \A s \in Sweepers :
             (nSweeps = 2 /\ sw[s].pc = "dispatch" /\ sw'[s].pc = "enqueue") =>
                 /\ sw[s].order[sw[s].idx] \notin DOMAIN lock
                 /\ dispatched[sw[s].order[sw[s].idx]] = 0
       /\ \A s \in Sweepers :
             (sw[s].pc # "enqueue" /\ sw'[s] # sw[s]) => queue' = queue]_vars

\* the second sweep, with the same 'now', found the lock of a name the first
\* had locked and enqueued, and enqueued nothing for it
C2_Witness ==
    \E s \in Sweepers : \E i \in DOMAIN sw[s].log :
        /\ nSweeps = 2
        /\ ~sw[s].log[i].got
        /\ dispatched[sw[s].log[i].name] = 1
        /\ sw[s].log[i].name \in DOMAIN lock
        /\ lock[sw[s].log[i].name].val = sw[s].now

\* sweep s has attempted name c / its redis.set has acquired the lock of c
Attempted(s, c) == \E i \in DOMAIN sw[s].log : sw[s].log[i].name = c
Got(s, c) == \E i \in DOMAIN sw[s].log : sw[s].log[i].name = c /\ sw[s].log[i].got

\* C3: when two concurrent sweeps both find the same connector due while its
\* lock is free, exactly one of them acquires the lock and enqueues a job for
\* it; the other enqueues none.
C3_ExactlyOneSweepWins ==
    \A s1, s2 \in Sweepers :
        (s1 # s2 /\ sw[s1].pc = "dispatch" /\ sw[s2].pc = "dispatch")
            => \A c \in sw[s1].free \cap sw[s2].free :
                  (Attempted(s1, c) /\ Attempted(s2, c)) => (Got(s1, c) # Got(s2, c))

\* the step ends an invocation of run_connector in worker w
Exits(w) == ex[w].pc # "ended" /\ ex'[w].pc = "ended"

\* C4: every invocation of run_connector, whatever its outcome, ends with the
\* connector's lock key deleted.
C4_LockDeletedOnExit ==
    [][\A w \in Workers : Exits(w) => ex'[w].connector \notin DOMAIN lock']_vars

\* C5: no exception raised during a run propagates out of run_connector; after
\* it returns the Run row is committed with status 'success' or 'error'.
C5_RunAlwaysRecorded ==
    [][\A w \in Workers :
          Exits(w) => /\ ~ex'[w].raised
                      /\ \E r \in runs' : r.id = ex[w].id
                                          /\ r.status \in {"success", "error"}]_vars

\* C6: after a run that ends with status 'success', the connector's Schedule
\* has last_run_at equal to that Run's finished_at and next_due_at equal to
\* calculate_next_due(cadence, finished_at), cadence being the Schedule's
\* cadence_cron, or the connector default when no Schedule row existed.
C6_SuccessAdvancesSchedule ==
    [][\A r \in runs' \ runs :
          r.status = "success" =>
              LET c == r.connector
                  cadence == IF c \in DOMAIN schedules THEN schedules[c].cadence_cron
                             ELSE default_cadence[c]
              IN  /\ c \in DOMAIN schedules'
                  /\ schedules'[c].last_run_at = r.finished_at
                  /\ schedules'[c].next_due_at =
                         calculate_next_due(cadence, r.finished_at, r.finished_at)
                  /\ schedules'[c].cadence_cron = cadence]_vars

\* a successful run is committed and the Schedule shows its finish time and
\* a later due time
C6_Witness ==
    \E r \in runs :
        /\ r.status = "success"
        /\ r.connector \in DOMAIN schedules
        /\ schedules[r.connector].last_run_at = r.finished_at
        /\ schedules[r.connector].next_due_at > r.finished_at

\* C7: after a run that ends with status 'error' the connector's Schedule row
\* has the last_run_at and next_due_at it had before the run started (the row
\* the run read at its start); if no Schedule row existed then, one is there
\* with last_run_at = null and next_due_at = null.
C7_ErrorKeepsSchedule ==
    [][\A w \in Workers :
          (ex[w].pc = "commit" /\ ex'[w].pc = "release" /\ ex[w].status = "error") =>
              LET c == ex[w].connector
              IN  /\ c \in DOMAIN schedules'
                  /\ ex[w].sched # <<>> =>
                        /\ schedules'[c].last_run_at = ex[w].sched[1].last_run_at
                        /\ schedules'[c].next_due_at = ex[w].sched[1].next_due_at
                  /\ ex[w].sched = <<>> =>
                        /\ schedules'[c].last_run_at = NULL
                        /\ schedules'[c].next_due_at = NULL]_vars

\* what the commit of a failed run does by itself: it changes no existing
\* Schedule row, and the row it inserts has the default cadence and no
\* timestamps
ErrorCommitKeepsRows ==
    [][\A r \in runs' \ runs :
          r.status = "error" =>
              LET c == r.connector
              IN  /\ c \in DOMAIN schedules'
                  /\ \A n \in DOMAIN schedules :
                        n \in DOMAIN schedules' /\ schedules'[n] = schedules[n]
                  /\ c \notin DOMAIN schedules =>
                        /\ schedules'[c].last_run_at = NULL
                        /\ schedules'[c].next_due_at = NULL
                        /\ schedules'[c].cadence_cron = default_cadence[c]]_vars

\* a failed run is committed for a connector that had run before, and its
\* Schedule still shows the earlier run
C7_Witness ==
    \E r \in runs :
        /\ r.status = "error"
        /\ r.connector \in DOMAIN schedules
        /\ schedules[r.connector].last_run_at # NULL
        /\ schedules[r.connector].last_run_at < r.finished_at

\* C8: enqueue_due_jobs never changes last_run_at, next_due_at, cadence_cron
\* or enabled of an existing Schedule row; the only Schedule writes of a sweep
\* are inserts of missing rows.
C8_SweepLeavesRows ==
    [][sw' # sw =>
          \A n \in DOMAIN schedules :
              n \in DOMAIN schedules' /\ schedules'[n] = schedules[n]]_vars

\* a sweep that acquired the lock and enqueued a connector with an existing
\* row has committed, and the row has not advanced
C8_Witness ==
    \E s \in Sweepers : \E n \in Registered :
        /\ sw[s].pc = "done"
        /\ n \in DOMAIN lock
        /\ lock[n].val = sw[s].now
        /\ n \in DOMAIN schedules
        /\ schedules[n].last_run_at = NULL
        /\ schedules[n].next_due_at = NULL
        /\ wavesEnv = <<<<"beta", "alpha">>>>

\* C9: after one completed sweep every connector of the registry has its
\* Schedule row; a row the sweep created has cadence_cron = default_cadence,
\* enabled = true, null last_run_at and next_due_at.
C9_SweepBootstrapsRows ==
    [][\A s \in Sweepers :
          (sw[s].pc = "dispatch" /\ sw'[s].pc = "done") =>
              /\ \A c \in Registered : c \in DOMAIN schedules'
              /\ \A n \in DOMAIN schedules' \ DOMAIN schedules :
                    schedules'[n] = [cadence_cron |-> default_cadence[n],
                                     last_run_at |-> NULL, next_due_at |-> NULL,
                                     enabled |-> TRUE]]_vars

\* a sweep has completed on a table that lacked rows, and the rows are there
C9_Witness ==
    \E s \in Sweepers :
        /\ sw[s].pc = "done"
        /\ wavesEnv = <<>>
        /\ Registered \subseteq DOMAIN schedules
        /\ schedules["alpha"] = [cadence_cron |-> EveryMinute, last_run_at |-> NULL,
                                 next_due_at |-> NULL, enabled |-> TRUE]
        /\ schedules["beta"].enabled

\* the first group of the waves setting that lists n (past the last: none)
GroupOf(env, n) ==
    IF \E k \in DOMAIN env : n \in Range(env[k])
    THEN CHOOSE k \in DOMAIN env :
            /\ n \in Range(env[k])
            /\ \A j \in DOMAIN env : n \in Range(env[j]) => k <= j
    ELSE Len(env) + 1

\* the first place of n in seq
PlaceIn(seq, n) ==
    CHOOSE i \in DOMAIN seq : seq[i] = n /\ \A j \in DOMAIN seq : seq[j] = n => i <= j

\* a comes before b in priority-wave order
WaveBefore(env, due, a, b) ==
    \/ GroupOf(env, a) < GroupOf(env, b)
    \/ /\ GroupOf(env, a) = GroupOf(env, b)
       /\ GroupOf(env, a) <= Len(env)
       /\ PlaceIn(env[GroupOf(env, a)], a) < PlaceIn(env[GroupOf(env, a)], b)
    \/ /\ GroupOf(env, a) = GroupOf(env, b)
       /\ GroupOf(env, a) > Len(env)
       /\ PlaceIn(due, a) < PlaceIn(due, b)

\* the names sweep s has attempted so far, in the order of its attempts
AttemptOrder(s) == [i \in DOMAIN sw[s].log |-> sw[s].log[i].name]

\* C10: within one sweep the due connectors are attempted in priority-wave
\* order: a due name of an earlier wave before every due name first listed in
\* a later wave, names of one wave in the wave's listed order, due names of no
\* wave after all waved names in their due-set order; waves "beta,alpha" with
\* both due gives [beta, alpha].
C10_PriorityWaveOrder ==
    \A s \in Sweepers :
        /\ \A i, j \in DOMAIN sw[s].log :
              i < j => WaveBefore(wavesEnv, sw[s].due, sw[s].log[i].name, sw[s].log[j].name)
        /\ Range(AttemptOrder(s)) \subseteq Range(sw[s].due)
        /\ (wavesEnv = <<<<"beta", "alpha">>>> /\ Len(sw[s].log) = Len(sw[s].due)
            /\ Range(sw[s].due) = {"alpha", "beta"})
              => AttemptOrder(s) = <<"beta", "alpha">>

\* a sweep has attempted three due connectors in an order that the waves, not
\* the due set, decided
C10_Witness ==
    \E s \in Sweepers :
        /\ Len(sw[s].log) = 3
        /\ Len(wavesEnv) > 1
        /\ sw[s].due = <<"alpha", "beta", "gamma">>
        /\ AttemptOrder(s) = <<"gamma", "beta", "alpha">>

\* the due timestamp of a Schedule row as stated: next_due_at if set, else the
\* first occurrence of the cadence after last_run_at if set, else 'now'
DueTimestamp(row, now) ==
    IF row.next_due_at # NULL THEN row.next_due_at
    ELSE IF row.last_run_at # NULL
         THEN CHOOSE t \in 0..(MaxTime + 2) :
                 /\ t > row.last_run_at
                 /\ t % CronStep(row.cadence_cron) = 0
                 /\ \A u \in (row.last_run_at + 1)..(t - 1) :
                       u % CronStep(row.cadence_cron) # 0
         ELSE now

\* the Schedule rows sweep s works from: the committed rows its query reads
\* and, for the connectors it bootstraps, a row with the default cadence and
\* no timestamps
RowsSeenBy(s) ==
    [n \in DOMAIN schedules \cup sw[s].new |->
        IF n \in DOMAIN schedules
        THEN schedules[n]
        ELSE [cadence_cron |-> default_cadence[n], last_run_at |-> NULL,
              next_due_at |-> NULL, enabled |-> TRUE]]

\* C11: a sweep at 'now' takes an enabled, registered connector as due exactly
\* when its due timestamp (next_due_at if set, else calculate_next_due(cadence,
\* last_run_at) if last_run_at is set, else 'now') is <= now; a connector with
\* both timestamps null, one bootstrapped in this sweep included, is always due.
C11_DueExactlyWhenReached ==
    [][\A s \in Sweepers :
          (sw[s].pc = "flushed" /\ sw'[s].pc = "dispatch") =>
              LET view == RowsSeenBy(s)
              IN  /\ Range(sw'[s].due) =
                        {n \in DOMAIN view \cap Registered :
                            view[n].enabled /\ DueTimestamp(view[n], sw[s].now) <= sw[s].now}
                  /\ \A n \in DOMAIN view \cap Registered :
                        (view[n].enabled /\ view[n].last_run_at = NULL
                         /\ view[n].next_due_at = NULL) => n \in Range(sw'[s].due)
                  /\ sw[s].new \subseteq Range(sw'[s].due)]_vars

\* a sweep at minute 1 found due the connector whose cadence had come round
\* since its last run and left out the enabled one whose next_due_at lay ahead
C11_Witness ==
    \E s \in Sweepers :
        /\ sw[s].pc = "dispatch"
        /\ sw[s].now = 1
        /\ Range(sw[s].due) = {"alpha"}
        /\ schedules["alpha"] = [cadence_cron |-> EveryMinute, last_run_at |-> 0,
                                 next_due_at |-> NULL, enabled |-> TRUE]
        /\ schedules["beta"] = [cadence_cron |-> EveryOther, last_run_at |-> 0,
                                next_due_at |-> 2, enabled |-> TRUE]

\* the ids of the committed Run rows
RunIds(table) == {r.id : r \in table}

\* C12: a Run row is created in 'running' with null finished_at, changes status
\* once, to 'success' or 'error', with finished_at set, keeps that status, and
\* once committed is never deleted nor reused by a later run.
C12_RunLifecycle ==
    [][/\ \A w \in Workers :
             /\ (ex[w].status # "running" /\ ex'[w].status = "running") =>
                   /\ ex'[w].finished_at = NULL
                   /\ ex'[w].id \notin RunIds(runs)
                   /\ \A v \in Workers \ {w} : ex[v].id # ex'[w].id
             /\ (ex[w].status = "running" /\ ex'[w].pc = "advance") =>
                   /\ ex'[w].status \in {"success", "error"}
                   /\ ex'[w].finished_at # NULL
             /\ (ex[w].status \in {"success", "error"}
                 /\ ex'[w].pc \in {"finally", "advance", "commit", "release"}) =>
                   /\ ex'[w].status = ex[w].status
                   /\ ex'[w].finished_at = ex[w].finished_at
                   /\ ex'[w].id = ex[w].id
       /\ runs \subseteq runs'
       /\ \A r \in runs' \ runs :
             /\ r.status \in {"success", "error"}
             /\ r.finished_at # NULL
             /\ r.id \notin RunIds(runs)]_vars

\* two runs of one connector are committed, each under its own id
C12_Witness ==
    \E r1, r2 \in runs :
        /\ r1.id # r2.id
        /\ r1.connector = r2.connector
        /\ r1.status = "error"
        /\ r2.status = "success"
        /\ r1.finished_at < r2.finished_at

\* connector n is due for sweep s by the stated rule, its cadence readable
DueFor(s, n) ==
    /\ n \in DOMAIN RowsSeenBy(s)
    /\ n \in Registered
    /\ RowsSeenBy(s)[n].enabled
    /\ \/ RowsSeenBy(s)[n].next_due_at # NULL
       \/ RowsSeenBy(s)[n].last_run_at = NULL
       \/ RowsSeenBy(s)[n].cadence_cron \in {EveryMinute, EveryOther}
    /\ DueTimestamp(RowsSeenBy(s)[n], sw[s].now) <= sw[s].now

\* C16: a failure while the sweep evaluates one connector (unparsable cadence
\* in the due-time computation, bootstrap insert failure, lock or enqueue
\* failure) does not abort the sweep: every other due connector whose lock is
\* free is still enqueued in that sweep.
C16_FailureDoesNotAbortSweep ==
    [][\A s \in Sweepers :
          (sw[s].pc \in {"begun", "flushed", "dispatch", "enqueue"} /\ sw'[s].pc = "failed") =>
              \A n \in Registered :
                  (DueFor(s, n) /\ n \notin DOMAIN lock') => Got(s, n)]_vars

\* C17: an enabled Schedule row whose connector is not in the registry is
\* skipped by the sweep: no lock is taken and no job enqueued for it, and the
\* other schedules are still evaluated and dispatched.
C17_UnknownConnectorSkipped ==
    [][/\ \A n \in Names \ Registered :
             /\ n \notin DOMAIN lock'
             /\ n \notin Range(queue')
             /\ \A s \in Sweepers :
                   n \notin Range(sw'[s].due) /\ n \notin Range(sw'[s].order)
       /\ \A s \in Sweepers :
             /\ (sw[s].pc = "flushed" /\ sw'[s].pc = "dispatch") =>
                   Range(sw'[s].order) = {n \in Registered : DueFor(s, n)}
             /\ (sw[s].pc = "dispatch" /\ sw'[s].pc = "done") =>
                   \A n \in Range(sw[s].order) : Attempted(s, n)]_vars

\* a sweep over a table holding an enabled row of no registered connector has
\* dispatched a registered one
C17_Witness ==
    \E s \in Sweepers :
        /\ sw[s].pc = "dispatch"
        /\ "ghost" \in DOMAIN schedules
        /\ schedules["ghost"].enabled
        /\ Got(s, "beta")
        /\ "beta" \in Range(queue)

\* C18: when a connector's lock is already held the sweep skips it, without
\* raising and without retrying, and goes on to the later connectors of the
\* order; the held lock's value and TTL are not overwritten.
C18_HeldLockSkipped ==
    [][\A s \in Sweepers :
          /\ (sw[s].pc = "dispatch" /\ sw'[s] # sw[s]
              /\ sw[s].idx <= Len(sw[s].order)
              /\ sw[s].order[sw[s].idx] \in DOMAIN lock) =>
                 /\ lock' = lock
                 /\ queue' = queue
                 /\ sw'[s].pc = "dispatch"
                 /\ sw'[s].idx = sw[s].idx + 1
                 /\ sw'[s].order = sw[s].order
          /\ \A i, j \in DOMAIN sw'[s].log :
                i < j => sw'[s].log[i].name # sw'[s].log[j].name
          /\ (sw[s].pc = "dispatch" /\ sw'[s].pc = "done") =>
                Len(sw[s].log) = Len(sw[s].order)]_vars

\* what holds of the same steps: when redis.set returns on a held key the
\* sweep skips the connector and goes on; when it raises the sweep ends there,
\* the key and the queue as they were
HeldLockSkippedOrSetRaises ==
    [][\A s \in Sweepers :
          /\ (sw[s].pc = "dispatch" /\ sw'[s] # sw[s]
              /\ sw[s].idx <= Len(sw[s].order)
              /\ sw[s].order[sw[s].idx] \in DOMAIN lock) =>
                 /\ lock' = lock
                 /\ queue' = queue
                 /\ \/ sw'[s].pc = "failed"
                    \/ /\ sw'[s].pc = "dispatch"
                       /\ sw'[s].idx = sw[s].idx + 1
                       /\ sw'[s].order = sw[s].order
          /\ \A i, j \in DOMAIN sw'[s].log :
                i < j => sw'[s].log[i].name # sw'[s].log[j].name
          /\ (sw[s].pc = "dispatch" /\ sw'[s].pc = "done") =>
                Len(sw[s].log) = Len(sw[s].order)]_vars

\* a sweep found the lock of its first connector held, skipped it, and took
\* the lock of its second
HeldLockWasSkipped ==
    \E s \in Sweepers :
        /\ Len(sw[s].log) = 2
        /\ ~sw[s].log[1].got
        /\ sw[s].log[2].got
        /\ sw[s].log[1].name \in DOMAIN lock
        /\ lock[sw[s].log[1].name].val <= sw[s].now

\* the executor of the connector that sweep s is at in its loop has died
DeadExecutorAt(s) ==
    /\ sw[s].idx <= Len(sw[s].order)
    /\ \E w \in Workers : /\ ex[w].pc = "killed"
                          /\ ex[w].connector = sw[s].order[sw[s].idx]

\* no lock outlives its TTL, and a sweep that reaches a connector whose
\* executor died, the key gone, sets the lock and goes on to queue.enqueue
LockExpiresAndIsRetaken ==
    /\ \A k \in DOMAIN lock' :
          /\ lock'[k].exp > clock'
          /\ lock'[k].exp <= clock' + LockTtl
    /\ \A s \in Sweepers :
          (/\ sw[s].pc = "dispatch" /\ sw'[s] # sw[s]
           /\ DeadExecutorAt(s)
           /\ sw[s].order[sw[s].idx] \notin DOMAIN lock) =>
              /\ sw[s].order[sw[s].idx] \in DOMAIN lock'
              /\ sw'[s].pc = "enqueue"
              /\ sw'[s].idx = sw[s].idx

\* as time passes every lock whose expiry lies within the time of the model is
\* gone at some moment
LockGoesAway ==
    \A k \in Names :
        (k \in DOMAIN lock /\ lock[k].exp <= MaxTime) ~> (k \notin DOMAIN lock)

\* C15: if an executor dies without deleting its connector's lock, the lock
\* disappears once its TTL has elapsed, and a later sweep in which the
\* connector is still due acquires the lock and enqueues the connector again;
\* the connector is never blocked forever.  No lock outlives its TTL and every
\* lock is gone at some moment; a sweep that reaches a connector whose executor
\* died, the lock gone, sets the lock, and its queue.enqueue appends the job.
C15_DeadExecutorLockExpires ==
    /\ [][/\ LockExpiresAndIsRetaken
          /\ \A s \in Sweepers :
                (sw[s].pc = "enqueue" /\ sw'[s] # sw[s] /\ DeadExecutorAt(s)) =>
                    queue' = Append(queue, sw[s].order[sw[s].idx])]_vars
    /\ LockGoesAway

\* what holds of the same steps: redis.set sets the lock or raises, the key
\* still absent; queue.enqueue appends the job or raises, leaving the queue
\* as it was and the lock to expire in its turn
DeadExecutorLockExpiresOrSweepRaises ==
    /\ [][/\ \A k \in DOMAIN lock' :
                /\ lock'[k].exp > clock'
                /\ lock'[k].exp <= clock' + LockTtl
          /\ \A s \in Sweepers :
                /\ (/\ sw[s].pc = "dispatch" /\ sw'[s] # sw[s]
                    /\ DeadExecutorAt(s)
                    /\ sw[s].order[sw[s].idx] \notin DOMAIN lock) =>
                       \/ /\ sw[s].order[sw[s].idx] \in DOMAIN lock'
                          /\ sw'[s].pc = "enqueue"
                          /\ sw'[s].idx = sw[s].idx
                       \/ sw'[s].pc = "failed" /\ lock' = lock
                /\ (sw[s].pc = "enqueue" /\ sw'[s] # sw[s]) =>
                       \/ queue' = Append(queue, sw[s].order[sw[s].idx])
                       \/ sw'[s].pc = "failed" /\ queue' = queue]_vars
    /\ LockGoesAway

\* an executor died holding the lock taken at minute 0; the TTL ran out and a
\* sweep at minute 2 took the lock anew and enqueued the connector again
DeadExecutorRedispatched ==
    \E w \in Workers :
        /\ ex[w].pc = "killed"
        /\ ex[w].connector \in DOMAIN lock
        /\ lock[ex[w].connector].val = LockTtl
        /\ ex[w].connector \in Range(queue)
        /\ runs = {}

\* C14: if a connector was due and its run ends in 'error', the next sweep that
\* runs after that run has returned (its 'now' not earlier) finds the connector
\* due again and, the lock being free, enqueues a new job for it: a sweep that
\* reads the schedules while the connector's last returned run is a failed one
\* that finished not after the sweep's 'now', no sweep having enqueued the
\* connector since, has it in its due list.
C14_FailedRunIsDueAgain ==
    [][\A s \in Sweepers :
          /\ (sw[s].pc = "flushed" /\ sw'[s].pc = "dispatch") =>
                \A c \in failed :
                    (/\ c \in DOMAIN schedules
                     /\ schedules[c].enabled
                     /\ \A r \in runs : r.connector = c => r.finished_at <= sw[s].now)
                        => c \in Range(sw'[s].due)
          /\ (/\ sw[s].pc = "dispatch" /\ sw'[s] # sw[s]
              /\ sw[s].idx <= Len(sw[s].order)
              /\ sw[s].order[sw[s].idx] \in failed
              /\ sw[s].order[sw[s].idx] \notin DOMAIN lock) =>
                sw'[s].pc = "enqueue"
          /\ (sw[s].pc = "enqueue" /\ sw'[s].pc = "dispatch") =>
                queue' = Append(queue, sw[s].order[sw[s].idx])]_vars

\* what holds of the same steps while no connector has two jobs at a time:
\* the sweep has the connector in its due list, and at the connector its
\* redis.set sets the lock or raises
FailedRunIsDueAgainOrSetRaises ==
    [][\A s \in Sweepers :
          /\ (sw[s].pc = "flushed" /\ sw'[s].pc = "dispatch") =>
                \A c \in failed :
                    (/\ c \in DOMAIN schedules
                     /\ schedules[c].enabled
                     /\ \A r \in runs : r.connector = c => r.finished_at <= sw[s].now)
                        => c \in Range(sw'[s].due)
          /\ (/\ sw[s].pc = "dispatch" /\ sw'[s] # sw[s]
              /\ sw[s].idx <= Len(sw[s].order)
              /\ sw[s].order[sw[s].idx] \in failed
              /\ sw[s].order[sw[s].idx] \notin DOMAIN lock) =>
                sw'[s].pc \in {"enqueue", "failed"}
          /\ (sw[s].pc = "enqueue" /\ sw'[s].pc = "dispatch") =>
                queue' = Append(queue, sw[s].order[sw[s].idx])]_vars

\* C13: a run's persistence is all-or-nothing: when a run that ended in 'error'
\* commits, none of the Source, Candidate or Embedding rows it added are
\* committed, while its Run row with status 'error' is.
C13_ErrorRunPersistsNothing ==
    [][(job.pc = "commit" /\ job.status = "error" /\ db' # db) =>
          /\ db'.sources = db.sources
          /\ db'.candidates = db.candidates
          /\ db'.embeddings = db.embeddings
          /\ \E r \in runs' \ runs : r.status = "error"]_vars

\* _is_duplicate_source flags the payload (does not flag it) whichever rows
\* the query for the recent sources returns
FlaggedSource(payload) ==
    \A recent_sources \in RecentSources(payload.channel) :
        is_duplicate_source(payload, recent_sources)
ClearedSource(payload) ==
    \A recent_sources \in RecentSources(payload.channel) :
        ~is_duplicate_source(payload, recent_sources)

\* The rows and the accepted items of the session, as one value
Accepted == <<job.flushedS, job.flushedC, job.pendingC, job.item_total>>

\* C19: a fetched source whose non-empty content hash is that of a Source
\* already persisted is not persisted as a new Source row, extract is not
\* called for it and nothing is added to the run's accepted-item count; no two
\* Source rows ever share a non-empty content hash.
C19_HashDuplicateSkipped ==
    [][(/\ job.pc = "source" /\ job' # job
        /\ job.i <= Len(job.feed)
        /\ job.feed[job.i].src.content_hash # ""
        /\ \E existing \in VisibleSources :
              existing.content_hash = job.feed[job.i].src.content_hash) =>
          /\ Accepted' = Accepted
          /\ job'.pc = "source"
          /\ job'.i = job.i + 1
          /\ db' = db]_vars

\* C19 is exercised: with the Source of hash "dup" persisted by an earlier run,
\* the batch (duplicate, unique) has been worked through and committed: one new
\* Source row, one new Candidate row scored 40, two keys recorded, accepted-item
\* count 1
C19_Witness ==
    /\ \E existing \in db.sources : existing.run = 0 /\ existing.content_hash = "dup"
    /\ Cardinality(db.sources) = 2
    /\ \A existing \in db.sources : existing.run = 0 \/ existing.content_hash # "dup"
    /\ 1 \in DOMAIN db.item_count
    /\ db.item_count[1] = 1
    /\ \E r \in runs : r.id = 1 /\ r.status = "success"
    /\ \E c \in db.candidates : c.run = 1 /\ c.name = "New Talent" /\ c.score = 40
    /\ Cardinality(db.candidates) = 2
    /\ Cardinality(db.embeddings) = 2

\* the mark of the token in the namespace has been recorded: committed, flushed
\* or added to the session
Recorded(namespace, key) ==
    /\ key # ""
    /\ [object_type |-> namespace, object_id |-> hash_embedding_key(key)]
          \in db.embeddings \cup job.flushedE \cup Range(job.pendingE)

\* C20: once a dedupe token has been recorded in a namespace, every later item
\* of that namespace carrying the token is flagged duplicate and not persisted
\* (a source: no Source row, no extract; a candidate: no Candidate row, not
\* counted); a token recorded only in the other namespace does not by itself
\* flag the item.
C20_RecordedTokenSuppresses ==
    [][/\ (/\ job.pc = "source" /\ job' # job /\ job.i <= Len(job.feed)
            /\ Recorded("dedupe:source",
                        payload_embedding_key(job.feed[job.i].src.meta))) =>
              (Accepted' = Accepted /\ job'.pc = "source")
       /\ (/\ job.pc = "candidate" /\ job' # job
            /\ Recorded("dedupe:candidate",
                        payload_embedding_key(Head(job.cands).metadata))) =>
              Accepted' = Accepted
       /\ (/\ job.pc = "candidate" /\ job' # job
            /\ ~Recorded("dedupe:candidate",
                         payload_embedding_key(Head(job.cands).metadata))
            /\ \A existing \in VisibleCandidates \cup job.pendingC :
                  /\ ~exact_match(existing.name, Head(job.cands).name)
                  /\ ~fuzzy_match(existing.name, Head(job.cands).name)) =>
              job'.item_total = job.item_total + 1]_vars

\* every source of the batch carries a content hash or a dedupe token, and
\* extract returns for each of them
Identified(feed) ==
    \A i \in DOMAIN feed :
        /\ feed[i].src.content_hash # "" \/ payload_embedding_key(feed[i].src.meta) # ""
        /\ ~feed[i].raises

\* C21: ingestion is idempotent under duplicate delivery: when run_connector has
\* been executed twice and fetch returned the same identified batch both times,
\* the second run has added no Source row and no Candidate row and has reported
\* accepted-item count 0.
C21_SecondDeliveryAddsNothing ==
    (/\ Len(delivered) = 2
     /\ delivered[1] = delivered[2]
     /\ Identified(delivered[1])
     /\ nRuns = 2
     /\ ex["w1"].pc = "ended") =>
        /\ \A row \in db.sources \cup db.candidates : row.run # 2
        /\ 2 \in DOMAIN db.item_count
        /\ db.item_count[2] = 0

\* the Source rows and the Candidate rows the session holds
SessionSources == job.flushedS
SessionCandidates == job.flushedC \cup job.pendingC

\* C22: for a run that ends in 'success', the Source rows added are exactly
\* the fetched sources not flagged duplicate, the Candidate rows added are
\* exactly the extracted candidates not flagged duplicate, and item_count is
\* the number of Candidate rows the run added: each iteration over a fetched
\* source (an extracted candidate) adds one row carrying the payload iff the
\* payload is not flagged, and the commit of a 'success' run adds exactly the
\* session's rows and sets item_count to the number of its Candidate rows.
C22_SuccessPersistsExactlyAccepted ==
    [][/\ (/\ job.pc = "source" /\ job'.pc \in {"source", "candidate"} /\ job' # job
            /\ job.i <= Len(job.feed)) =>
              LET payload == job.feed[job.i].src
              IN  \/ /\ ~ClearedSource(payload)
                     /\ SessionSources' = SessionSources
                  \/ /\ ~FlaggedSource(payload)
                     /\ SessionSources \subseteq SessionSources'
                     /\ Cardinality(SessionSources') = Cardinality(SessionSources) + 1
                     /\ \A row \in SessionSources' \ SessionSources :
                           /\ row.url = payload.url
                           /\ row.content_hash = payload.content_hash
                           /\ row.meta = payload.meta
                           /\ row.run = ex["w1"].id
       /\ (job.pc = "candidate" /\ job' # job) =>
              LET candidate == Head(job.cands)
              IN  IF is_duplicate_candidate(candidate)
                  THEN SessionCandidates' = SessionCandidates
                  ELSE /\ SessionCandidates \subseteq SessionCandidates'
                       /\ Cardinality(SessionCandidates')
                             = Cardinality(SessionCandidates) + 1
                       /\ \A row \in SessionCandidates' \ SessionCandidates :
                             /\ row.name = candidate.name
                             /\ row.source_id = job.source_id
                             /\ row.run = ex["w1"].id
                             /\ row.score = score_candidate(candidate.channel,
                                                            candidate.metadata)
       /\ (job.pc = "commit" /\ job.status = "success" /\ db' # db) =>
              /\ db'.sources \ db.sources = SessionSources
              /\ db'.candidates \ db.candidates = SessionCandidates
              /\ db.sources \subseteq db'.sources
              /\ db.candidates \subseteq db'.candidates
              /\ db'.item_count[ex["w1"].id]
                    = Cardinality({row \in db'.candidates : row.run = ex["w1"].id})]_vars

\* C22 is exercised: over the persisted source "dup" and its candidate, the
\* batch (duplicate, unique) with the candidates (existing, new) for each has
\* run to its end: one new Source row, one new Candidate row linked to it with
\* total score 40 (0 + 30 + 0 + 10), Run 'success' with item_count 1, the
\* Schedule's last_run_at at the run's finish, the lock released
C22_Witness ==
    /\ Len(delivered) = 1
    /\ Len(delivered[1]) = 2
    /\ delivered[1][1].src.content_hash = "dup"
    /\ ex["w1"].pc = "ended" /\ ~ex["w1"].raised
    /\ \E run \in runs :
          /\ run.id = 1 /\ run.status = "success"
          /\ schedules["alpha"].last_run_at = run.finished_at
    /\ "alpha" \notin DOMAIN lock
    /\ db.item_count[1] = 1
    /\ {row.url : row \in {x \in db.sources : x.run = 1}} = {"https://unique.example"}
    /\ \E row \in db.candidates, src \in db.sources :
          /\ row.run = 1 /\ src.run = 1 /\ row.source_id = src.id
          /\ row.name = "New Talent"
          /\ row.score = 40
          /\ row.score_breakdown = [institutional |-> 0, community |-> 30,
                                    social |-> 0, recency |-> 10]
    /\ Cardinality({row \in db.candidates : row.run = 1}) = 1

\* the 'since' a run passes to connector.fetch (line 156): last_run_at of the
\* Schedule it read at line 146, none without a row
Since(w) == IF ex[w].sched # <<>> THEN ex[w].sched[1].last_run_at ELSE NULL

\* the finish time of the connector's most recent successful run, none if it
\* has never succeeded
LastSuccess(c) ==
    LET finishes == {r.finished_at : r \in {x \in runs : x.connector = c
                                                         /\ x.status = "success"}}
    IN  IF finishes = {} THEN NULL
        ELSE CHOOSE t \in finishes : \A u \in finishes : u <= t

\* C23: the 'since' value a run passes to fetch is the finish time of the
\* connector's most recent successful run, or none if it has never succeeded
\* (no connector has run before the initial states of OverlapSpec): whenever a
\* run starts, the value it reads is that time.
C23_SinceIsLastSuccess ==
    [][\A w \in Workers :
          (ex[w].pc # "finally" /\ ex'[w].pc = "finally") =>
              Since(w)' = LastSuccess(ex'[w].connector)]_vars

\* a run that starts when a successful run of its connector is recorded reads
\* the finish time of the most recent one
SinceIsRecordedSuccess ==
    [][\A w \in Workers :
          (/\ ex[w].pc # "finally" /\ ex'[w].pc = "finally"
           /\ LastSuccess(ex'[w].connector) # NULL) =>
              Since(w)' = LastSuccess(ex'[w].connector)]_vars

\* the datetime calculate_next_due starts from: last_run, or now when
\* last_run is None
Reference == IF calc.last_run # <<>> THEN calc.last_run[1] ELSE calc.now

\* C24: for every valid cadence expression and reference time,
\* calculate_next_due returns a timezone-aware instant strictly later than the
\* reference time (last_run, or now when last_run is null) that is an
\* occurrence of the cadence.
C24_NextDueLaterOccurrence ==
    (calc.fn = "calculate_next_due" /\ calc.result # <<>>) =>
        /\ calc.result[1].aware
        /\ calc.result[1].t > Reference.t
        /\ calc.result[1].t % CronStep(calc.cron) = 0

\* C24 is exercised: "0 * * * *" from 12:30 (minute 30 of an hour) gives the
\* top of the next hour, and a naive now with no last_run gives an aware
\* result
C24_Witness ==
    /\ calc.fn = "calculate_next_due"
    /\ calc.cron = Hourly
    /\ calc.last_run = <<>>
    /\ calc.now = [t |-> 30, aware |-> FALSE]
    /\ calc.result = <<[t |-> 60, aware |-> TRUE]>>

\* C25: score_candidate is a deterministic function whose breakdown is
\* institutional = 40 if the channel is an institutional anchor or metadata
\* sets institutional_anchor, else 0; community = 30 if the channel is a
\* community channel or metadata sets community_signal, else 0; social = 20 if
\* the channel is a social channel, else 0; recency = 10; and whose total is
\* the sum of the four (at least 50 with a metadata-marked anchor).
C25_ScoreBreakdown ==
    (calc.fn = "score_candidate" /\ calc.result # <<>>) =>
        LET channel == calc.candidate_channel
            b == calc.result[1].breakdown
        IN  /\ b.institutional =
                  IF channel \in {"caha_pdf", "guma", "artspace", "uog"}
                     \/ calc.metadata.institutional_anchor THEN 40 ELSE 0
            /\ b.community =
                  IF channel \in {"reddit", "events"} \/ calc.metadata.community_signal
                  THEN 30 ELSE 0
            /\ b.social = IF channel \in {"instagram_stub", "tiktok_stub"} THEN 20 ELSE 0
            /\ b.recency = 10
            /\ calc.result[1].total
                  = b.institutional + b.community + b.social + b.recency
            /\ calc.metadata.institutional_anchor => calc.result[1].total >= 50
            /\ calc.result[1].total = score_candidate(channel, calc.metadata)

\* C25 is exercised: metadata marks an institutional anchor on a channel of
\* none of the three sets, and the score is 40 + 10
C25_Witness ==
    /\ calc.fn = "score_candidate"
    /\ calc.candidate_channel = "stub"
    /\ calc.metadata.institutional_anchor
    /\ ~calc.metadata.community_signal
    /\ calc.result # <<>>
    /\ calc.result[1].total = 50
    /\ calc.result[1].breakdown.institutional = 40

\* C26: when two sweeps concurrently bootstrap the same registered connector
\* that has no Schedule row, neither sweep fails or loses its dispatches
\* because of the other's insert: a sweep whose bootstrap rows meet rows
\* another sweep has inserted gets past its flush, on to its query and
\* dispatch loop, when it moves.
C26_ConcurrentBootstrap ==
    [][\A s \in Sweepers :
          (/\ sw[s].pc = "begun"
           /\ sw'[s] # sw[s]
           /\ sw[s].new \cap (DOMAIN schedules \cup (UNION {FlushedBy(t) : t \in Sweepers \ {s}})) # {}) =>
              sw'[s].pc = "flushed"]_vars

\* C27: the embeddings table holds at most one record per (namespace, hashed
\* token): recording never fails (no run raises over the marks its session
\* holds) and no step removes a mark.
C27_MarksWriteOnce ==
    [][/\ db.embeddings \subseteq db'.embeddings
       /\ job.flushedE \subseteq job'.flushedE \/ job'.pc = "idle"
       /\ ~(HasTwin(job.pendingE) /\ ~ex["w1"].raised /\ ex'["w1"].raised)]_vars

\* a step takes the lock of connector c or appends a job for it to the queue
Dispatches(c) ==
    \/ c \in DOMAIN lock' /\ (c \notin DOMAIN lock \/ lock'[c] # lock[c])
    \/ Len(queue') > Len(queue) /\ queue'[Len(queue')] = c

\* C28: a Schedule row with enabled = false is never dispatched, whatever its
\* last_run_at and next_due_at: a row that has enabled = false when a sweep
\* queries the schedules is not in that sweep's due list, and a sweep takes
\* locks and enqueues jobs only for the connectors of the due list it built.
C28_DisabledNeverDispatched ==
    [][/\ \A s \in Sweepers :
             /\ (sw[s].pc = "flushed" /\ sw'[s].pc = "dispatch") =>
                   \A c \in DOMAIN schedules :
                       ~schedules[c].enabled =>
                           c \notin Range(sw'[s].due) \cup Range(sw'[s].order)
             /\ (/\ sw[s].pc \in {"dispatch", "enqueue"}
                 /\ sw'[s].pc \in {"dispatch", "enqueue"}) =>
                   sw'[s].due = sw[s].due /\ sw'[s].order = sw[s].order
       /\ \A c \in Names :
             Dispatches(c) =>
                 \E s \in Sweepers :
                     /\ sw[s].pc \in {"dispatch", "enqueue"}
                     /\ sw'[s] # sw[s]
                     /\ c \in Range(sw[s].due)]_vars

\* C28 is exercised: the administrator has disabled alpha, whose cadence had
\* come round, and enabled beta; a sweep that then read the schedules left
\* alpha out of its due list and took the lock of beta
C28_Witness ==
    \E s \in Sweepers :
        /\ "alpha" \in DOMAIN schedules
        /\ schedules["alpha"] = [cadence_cron |-> EveryMinute, last_run_at |-> 0,
                                 next_due_at |-> NULL, enabled |-> FALSE]
        /\ sw[s].pc \in {"dispatch", "enqueue"}
        /\ sw[s].now >= 1
        /\ sw[s].due = <<"beta">>
        /\ \E i \in DOMAIN sw[s].log : sw[s].log[i].name = "beta" /\ sw[s].log[i].got

\* C30: a sweep enqueues a connector only if that connector is due according
\* to the Schedule state committed at the moment the sweep acquires the lock:
\* when a run has completed meanwhile and advanced next_due_at beyond the
\* sweep's current time, the sweep does not enqueue the connector (it does not
\* take the lock and go on to queue.enqueue).
C30_EnqueueOnlyIfStillDue ==
    [][\A s \in Sweepers :
          (sw[s].pc = "dispatch" /\ sw'[s].pc = "enqueue") =>
              LET c == sw[s].order[sw[s].idx]
              IN  c \in DOMAIN schedules =>
                      /\ schedules[c].enabled
                      /\ IsDue(schedules, c, sw[s].now)]_vars

\* C29: a fetched source flagged duplicate is skipped entirely: no Source row
\* is added, its dedupe token is not recorded, extract is not called on it, no
\* candidate derived from it is persisted or counted, and processing continues
\* with the next fetched source.
C29_DuplicateSourceSkipped ==
    [][(/\ job.pc = "source" /\ job' # job
        /\ job.i <= Len(job.feed)
        /\ FlaggedSource(job.feed[job.i].src)) =>
          /\ job'.flushedS = job.flushedS
          /\ job'.flushedE = job.flushedE /\ job'.pendingE = job.pendingE
          /\ job'.cands = job.cands
          /\ job'.flushedC = job.flushedC /\ job'.pendingC = job.pendingC
          /\ job'.item_total = job.item_total
          /\ job'.status = job.status
          /\ job'.pc = "source" /\ job'.i = job.i + 1
          /\ db' = db /\ ex' = ex]_vars

\* C29 is exercised: the first source of a batch of two was flagged duplicate
\* while its token was in no mark, and the run has gone on to persist the
\* second source; the token is still in no mark
C29_Witness ==
    /\ job.pc = "candidate"
    /\ Len(job.feed) = 2 /\ job.i = 2
    /\ FlaggedSource(job.feed[1].src)
    /\ payload_embedding_key(job.feed[1].src.meta) # ""
    /\ ~Recorded("dedupe:source", payload_embedding_key(job.feed[1].src.meta))
    /\ Cardinality(job.flushedS) = 1
    /\ \A row \in job.flushedS : row.url = job.feed[2].src.url
    /\ job.item_total = 0

\* a job for the connector dispatched after the one the executor is running:
\* still queued, or taken up by another executor as a later run
LaterJob(w) ==
    \/ ex[w].connector \in Range(queue)
    \/ \E v \in Workers \ {w} :
          /\ ex[v].connector = ex[w].connector
          /\ InFlight(v)
          /\ ex[v].id > ex[w].id

\* C31: an executor's lock release removes only the lock under which its own
\* job was dispatched: when that lock has expired and a later sweep has
\* acquired a new lock for the connector (a later job was dispatched under
\* it), the finishing executor does not delete the new lock.
C31_ReleaseOnlyOwnLock ==
    [][\A w \in Workers :
          (/\ ex[w].pc = "release"
           /\ ex'[w].pc = "ended"
           /\ ex[w].connector \in DOMAIN lock
           /\ LaterJob(w)) =>
              ex[w].connector \in DOMAIN lock']_vars

\* C32: when the sweep acquires a connector's lock and the enqueue call
\* fails, the lock is not left held with no job behind it: after the failing
\* enqueue the key is gone, or a job for the connector is queued or executing.
C32_NoLockWithoutJob ==
    [][\A s \in Sweepers :
          (sw[s].pc = "enqueue" /\ sw'[s].pc = "failed") =>
              LET c == sw[s].order[sw[s].idx]
              IN  \/ c \notin DOMAIN lock'
                  \/ c \in Range(queue')
                  \/ \E w \in Workers : InFlight(w) /\ ex[w].connector = c]_vars

\* C33: the Schedule row a sweep bootstraps is committed before any job the
\* sweep enqueued for the connector can execute: an executor that starts a
\* run finds the Schedule row of its connector, and no commit of a run fails
\* on inserting a row under a key that is there.
C33_BootstrapCommittedBeforeRun ==
    [][\A w \in Workers :
          /\ (Waiting(w) /\ ex'[w].pc = "finally") => ex'[w].sched # <<>>
          /\ (ex[w].pc = "commit" /\ ex'[w].pc = "ended") => ~ex'[w].raised]_vars

\* C34: the executor commits the Run's terminal status and the Schedule
\* advancement before it deletes the lock: when a successful run deletes the
\* lock, its Run row is committed and the Schedule shows that run's
\* last_run_at and next_due_at (or those of a run that finished after it).
C34_CommitBeforeRelease ==
    [][\A w \in Workers :
          (/\ ex[w].pc = "release"
           /\ ex'[w].pc = "ended"
           /\ ex[w].status = "success") =>
              /\ RunRow(w) \in runs
              /\ ex[w].connector \in DOMAIN schedules
              /\ schedules[ex[w].connector].last_run_at >= ex[w].finished_at
              /\ schedules[ex[w].connector].next_due_at >= ex[w].write[1].next_due_at]_vars

\* a successful run whose connector no other worker has executed deletes the
\* lock with its own last_run_at and next_due_at in the Schedule
LoneRunCommitsBeforeRelease ==
    [][\A w \in Workers :
          (/\ ex[w].pc = "release"
           /\ ex'[w].pc = "ended"
           /\ ex[w].status = "success"
           /\ \A v \in Workers \ {w} : ex[v].connector # ex[w].connector) =>
              /\ RunRow(w) \in runs
              /\ ex[w].connector \in DOMAIN schedules
              /\ schedules[ex[w].connector].last_run_at = ex[w].finished_at
              /\ schedules[ex[w].connector].next_due_at = ex[w].write[1].next_due_at]_vars

\* C35: every Schedule row written by the executor on success has
\* next_due_at > last_run_at, and a connector's last_run_at never moves
\* backwards from one committed value to the next, even when two executions
\* of the same connector overlap.
C35_LastRunMonotone ==
    [][\A c \in DOMAIN schedules \cap DOMAIN schedules' :
          /\ (schedules[c].last_run_at # NULL) =>
                 schedules'[c].last_run_at >= schedules[c].last_run_at
          /\ (\E w \in Workers :
                 /\ ex[w].pc = "commit" /\ ex'[w].pc = "release"
                 /\ ex[w].connector = c /\ ex[w].status = "success") =>
                 schedules'[c].next_due_at > schedules'[c].last_run_at]_vars

\* the names of the parsed waves, one after the other
RECURSIVE Listing(_)
Listing(waves) == IF waves = <<>> THEN <<>> ELSE Head(waves) \o Listing(Tail(waves))

\* the position of the first listing of a name in the waves (0: not listed)
FirstListing(n) ==
    LET flat == Listing(parse_priority_waves(wavesEnv))
    IN  IF n \in Range(flat) THEN CHOOSE i \in DOMAIN flat :
                                      flat[i] = n /\ \A j \in 1..(i - 1) : flat[j] # n
        ELSE 0

\* C37: _order_due_connectors returns a duplicate-free permutation of the due
\* set: every due name appears exactly once even if it is listed in several
\* waves or several times in one wave, at the place of its first listing
\* (listed names first, the others after them in the order of the due list);
\* a name listed in a wave but not due is never returned and never dispatched.
C37_OrderIsPermutation ==
    \A s \in Sweepers :
        sw[s].pc \in {"dispatch", "enqueue"} =>
            LET order == sw[s].order
                due == sw[s].due
            IN  /\ Range(order) = Range(due)
                /\ \A i, j \in DOMAIN order : order[i] = order[j] => i = j
                /\ \A i, j \in DOMAIN order :
                      (i < j /\ FirstListing(order[j]) # 0) =>
                          /\ FirstListing(order[i]) # 0
                          /\ FirstListing(order[i]) < FirstListing(order[j])
                /\ \A i, j \in DOMAIN order :
                      (i < j /\ FirstListing(order[i]) = 0) =>
                          \E k, m \in DOMAIN due :
                              k < m /\ due[k] = order[i] /\ due[m] = order[j]
                /\ \A k \in DOMAIN sw[s].log : sw[s].log[k].name \in Range(due)

\* C37 is exercised: a sweep has ordered a due list of at least two names
\* under waves that list a due name more than once and list a name that is
\* not due, and has dispatched from it
C37_Witness ==
    \E s \in Sweepers :
        LET flat == Listing(parse_priority_waves(wavesEnv))
        IN  /\ sw[s].pc = "dispatch"
            /\ Len(sw[s].order) >= 2
            /\ sw[s].log # <<>>
            /\ \E i, j \in DOMAIN flat :
                  i < j /\ flat[i] = flat[j] /\ flat[i] \in Range(sw[s].due)
            /\ \E i \in DOMAIN flat : flat[i] \notin Range(sw[s].due)

\* the run in progress has recorded the token in the namespace for an item it
\* persisted
RecordedByRun(namespace, key) ==
    /\ key # ""
    /\ [object_type |-> namespace, object_id |-> hash_embedding_key(key)]
          \in job.flushedE \cup Range(job.pendingE)

\* C36: within a single run, duplicates inside the fetched batch are
\* suppressed like historical ones: of two fetched sources, or two candidates
\* extracted in the same run, that carry the same dedupe token, the first is
\* persisted and the second is flagged duplicate (no row, not counted), and
\* the run does not raise over them.
C36_BatchDuplicatesSuppressed ==
    [][/\ (/\ job.pc = "source" /\ job' # job /\ job.i <= Len(job.feed)
            /\ RecordedByRun("dedupe:source",
                              payload_embedding_key(job.feed[job.i].src.meta))) =>
              /\ job'.flushedS = job.flushedS
              /\ job'.pc = "source"
       /\ (/\ job.pc = "candidate" /\ job' # job
            /\ RecordedByRun("dedupe:candidate",
                              payload_embedding_key(Head(job.cands).metadata))) =>
              /\ job'.pendingC = job.pendingC
              /\ job'.item_total = job.item_total
       /\ (job.pc \in {"source", "candidate"} /\ job' # job) =>
              \A w \in Workers : ex'[w].raised => ex[w].raised]_vars

\* C38: every Candidate row persisted by run_connector references a Source
\* row persisted earlier in that same run, the source whose extract produced
\* it; no run persists a candidate for a source that was skipped as duplicate
\* or that belongs to another run.
C38_CandidateReferencesOwnSource ==
    \A candidate \in db.candidates \cup job.flushedC \cup job.pendingC :
        candidate.run # 0 =>
            \E source \in db.sources \cup job.flushedS :
                /\ source.id = candidate.source_id
                /\ source.run = candidate.run
                /\ \E k \in DOMAIN delivered :
                      \E i \in DOMAIN delivered[k] :
                          /\ delivered[k][i].src.url = source.url
                          /\ \E j \in DOMAIN delivered[k][i].cands :
                                delivered[k][i].cands[j].name = candidate.name

\* C38 is exercised: the first source of the batch was skipped as duplicate of
\* a Source of an earlier run, the second was persisted, and a candidate of
\* its extract is in the session, linked to it
C38_Witness ==
    /\ \E existing \in db.sources : existing.run = 0
    /\ Len(job.feed) = 2
    /\ FlaggedSource(job.feed[1].src)
    /\ job.feed[1].cands # <<>>
    /\ \E candidate \in job.pendingC, source \in job.flushedS :
          /\ candidate.source_id = source.id
          /\ source.url = job.feed[2].src.url
          /\ source.run = candidate.run
          /\ candidate.run # 0

====
